---- MODULE Spec2Model ----
(***************************************************************************)
(* The D3 candlestick chart component (CustomCandlestickChart,             *)
(* src/unnamed/part_002) as a state machine, followed by the state         *)
(* machines of fetch_all_news (src/unnamed/part_004), of the               *)
(* lightweight-charts component (CandlestickChart.tsx), of the home page   *)
(* (app/page.tsx), of the portfolio tab (PortfolioTab.tsx) and of the      *)
(* portfolio news panel (src/unnamed/part_001).  Each specification runs   *)
(* one of them; the variables of the others keep their initial values.     *)
(*                                                                         *)
(* One action is one browser task: the event handler or promise            *)
(* continuation, the React render it causes and the effects of that        *)
(* commit.  The component is a 'use client' component (React 18), so the   *)
(* setState calls of one continuation are batched into one render.         *)
(*                                                                         *)
(* Calendar-day keys are modelled as positive integers (the code only      *)
(* compares them for equality); pixel positions are exact rationals kept   *)
(* as integer numerators over the denominator surface.den.                 *)
(***************************************************************************)
EXTENDS Integers, Sequences, FiniteSets, TLC

\* ------------------------------------------------------------------ bounds
MaxFetches == 2
MaxSelections == 2
MaxBars == 3
MaxTime == 3
MaxAxisBars == 17
MaxCalls == 2
MaxNewsPerTicker == 2
MaxLoads == 3
MaxAnalyses == 3
MaxTabCalls == 4
MaxPanelCalls == 3
MaxResponseLen == 2

\* ------------------------------------------------------- program constants
MarginLeft == 60
MarginRight == 60
PaddingTenths == 3
HitOffsetTenths == 2
HitWidthTenths == 14
TickTarget == 8

\* ------------------------------------------------------------ input domains
\* page.tsx renders the chart only for a non-empty activeTicker and always
\* with period="1y".
Tickers == {"AAPL", "MSFT"}
Periods == {"1y"}
Widths == {400, 800}
LayoutWidths == {0, 100, 120, 121, 400, 800}

\* ma5: number | null, with null modelled as NoValue (prices are positive).
NoValue == -1
Bar(t, o, h, l, c, v, m) ==
    [time |-> t, open |-> o, high |-> h, low |-> l, close |-> c, volume |-> v,
     ma5 |-> m]

NewsItem(ti, d) == [title |-> ti, pubDate |-> d]

Null == [null |-> TRUE]
NoDate == 0

SeriesA == << Bar(1, 100, 105, 99, 104, 1000, NoValue),
             Bar(2, 104, 106, 101, 102, 1500, 103) >>
SeriesB == << Bar(2, 50, 55, 49, 52, 700, NoValue) >>
\* A series with a malformed bar: its high is below its low.
SeriesBad == << Bar(1, 100, 98, 99, 104, 1000, NoValue) >>

\* What GET /api/ohlcv can deliver: a series and the news list that goes with it.
ServerSeries == { <<>>, SeriesA, SeriesB, SeriesBad }
ServerNews == { <<>>, << NewsItem("n1", 1), NewsItem("n2", 1) >> }
\* What GET /api/news-by-date can deliver.
FallbackNews == { <<>>, << NewsItem("f1", 2) >> }
ServerErrors == {""}

\* Every series of 1..MaxBars bars over the day keys 1..MaxTime, in any order
\* and with repeated keys, the two-bar example series, and the series of up to
\* MaxAxisBars consecutive days: the inputs of the layout functions.  The bar of day t has its own prices, and the bars of
\* even days have no moving average.
LayoutBar(t) ==
    Bar(t, 101 + (t % 3), 105 + ((3 * t) % 4), 95 + ((3 * t) % 7), 104 - (t % 2),
        1000 + 100 * t, IF t % 2 = 0 THEN NoValue ELSE 4 + t)
\* The series of the n consecutive days 1..n.
LongSeries(n) == [i \in 1..n |-> LayoutBar(i)]
LayoutSeries ==
    UNION { [1..n -> {LayoutBar(t) : t \in 1..MaxTime}] : n \in 1..MaxBars }
        \cup {SeriesA}
        \cup {LongSeries(n) : n \in 1..MaxAxisBars}

VARIABLES
    ticker, period,                      \* props
    data, news, loading, error,          \* useState, chart level
    hoveredData, selectedDate, selectedNews, loadingNews,
    barReqs, newsReqs,                   \* requests in flight
    nextBarId, selGen,                   \* fetchData calls / date selections so far
    svgMounted, surface, width, pointer, \* DOM
    drew,                                \* the last task ran the render pipeline
    disposed,                            \* the component was unmounted
    \* fetch_all_news (src/unnamed/part_004)
    cacheFile,                           \* what load_news_cache() returns
    news_map, pending,                   \* the dict and the tickers not yet fetched
    all_news, pc,                        \* the returned list, where the call is
    fetched, calls,                      \* observer: (ticker, id) pairs fetched, calls so far
    \* CandlestickChart (src/frontend/src/components/CandlestickChart.tsx)
    chartRef,                            \* chartRef.current: 0 for null, else a chart
    charts,                              \* the charts created and not removed
    resizeListeners,                     \* the charts whose handleResize is on window
    effectCleanup,                       \* the chart the pending effect cleanup removes, or 0
    chartsCreated,                       \* createChart calls so far
    \* Home (src/frontend/src/app/page.tsx)
    tickerInput, activeTicker, analyzing, result,
    homeError,                           \* Home's error field
    mainTab,
    analyzeReqs, analyzeCalls,           \* POST /api/analyze in flight, handleAnalyze calls so far
    \* PortfolioTab (src/frontend/src/components/PortfolioTab.tsx)
    categories, selectedCategory, stocks, analysisData, timeframe,
    tabLoading,                          \* PortfolioTab's loading field
    newCatName, newTicker,
    dbCategories, dbStocks,              \* the server's categories and their stocks
    tabReqs, tabCalls,                   \* requests in flight, requests issued so far
    \* PortfolioNews (src/unnamed/part_001)
    categoryId,                          \* prop
    panelNews, panelLoading, panelDate,  \* its news, loading and selectedDate fields
    panelReqs, panelCalls                \* requests in flight, requests issued so far

chartVars == << ticker, period, data, news, loading, error, hoveredData,
                selectedDate, selectedNews, loadingNews, barReqs, newsReqs,
                nextBarId, selGen, svgMounted, surface, width, pointer, drew,
                disposed >>

newsVars == << cacheFile, news_map, pending, all_news, pc, fetched, calls >>

lwVars == << chartRef, charts, resizeListeners, effectCleanup, chartsCreated >>

\* What the steps of the D3 chart, of fetch_all_news and of the two chart
\* components leave alone.
homeVars == << tickerInput, activeTicker, analyzing, result, homeError,
              mainTab, analyzeReqs, analyzeCalls >>

tabVars == << categories, selectedCategory, stocks, analysisData, timeframe,
             tabLoading, newCatName, newTicker, dbCategories, dbStocks,
             tabReqs, tabCalls >>

panelVars == << categoryId, panelNews, panelLoading, panelDate, panelReqs,
               panelCalls >>

outsideChart == << newsVars, lwVars, homeVars, tabVars, panelVars >>
outsideNews == << chartVars, lwVars, homeVars, tabVars, panelVars >>
outsideCharts == << newsVars, homeVars, tabVars, panelVars >>
outsideHome == << chartVars, newsVars, lwVars, tabVars, panelVars >>
outsideTab == << chartVars, newsVars, lwVars, homeVars, panelVars >>
outsidePanel == << chartVars, newsVars, lwVars, homeVars, tabVars >>

vars == << chartVars, newsVars, lwVars, homeVars, tabVars, panelVars >>

\* fetch_all_news has not been called and there is no cache file.
NewsIdle ==
    /\ cacheFile = <<>>
    /\ news_map = <<>>
    /\ pending = {}
    /\ all_news = <<>>
    /\ pc = "idle"
    /\ fetched = {}
    /\ calls = 0

\* No lightweight-charts chart was created.
LwIdle ==
    /\ chartRef = 0
    /\ charts = {}
    /\ resizeListeners = {}
    /\ effectCleanup = 0
    /\ chartsCreated = 0

\* activeTicker: string | null, with null modelled as the empty string (the
\* code tests it with !activeTicker only, and never stores an empty string).
NoTicker == ""

\* Home after its first render.
HomeInitial ==
    /\ tickerInput = ""
    /\ activeTicker = NoTicker
    /\ analyzing = FALSE
    /\ result = Null
    /\ homeError = ""
    /\ mainTab = "chart"
    /\ analyzeReqs = {}
    /\ analyzeCalls = 0

\* selectedCategory: null is NoCategory.  A category object is identified by
\* its id and by the categories response that created it (React compares
\* state values with Object.is).
CategoryIds == 1..3
Category(i, g) == [id |-> i, gen |-> g]
NoCategory == Category(0, 0)

\* The useState values of PortfolioTab, and a server that holds two
\* categories, the first with one stock.
TabFields ==
    /\ categories = {}
    /\ selectedCategory = NoCategory
    /\ stocks = <<>>
    /\ analysisData = Null
    /\ timeframe = "6mo"
    /\ tabLoading = FALSE
    /\ newCatName = ""
    /\ newTicker = ""
    /\ dbCategories = {1, 2}
    /\ dbStocks = [i \in CategoryIds |-> IF i = 1 THEN << "NVDA" >> ELSE <<>>]

\* PortfolioTab is not rendered.
TabIdle ==
    /\ TabFields
    /\ tabReqs = {}
    /\ tabCalls = 0

\* PortfolioNews is not rendered.
PanelIdle ==
    /\ categoryId = 0
    /\ panelNews = <<>>
    /\ panelLoading = FALSE
    /\ panelDate = NoDate
    /\ panelReqs = {}
    /\ panelCalls = 0

\* ------------------------------------------------------------ pure helpers
RECURSIVE Filter(_, _)
\* news.filter(n => n.pubDate === date)
Filter(list, d) ==
    IF list = <<>> THEN <<>>
    ELSE IF Head(list).pubDate = d
         THEN << Head(list) >> \o Filter(Tail(list), d)
         ELSE Filter(Tail(list), d)

RECURSIVE Dedup(_, _)
Dedup(keys, seen) ==
    IF keys = <<>> THEN <<>>
    ELSE IF Head(keys) \in seen
         THEN Dedup(Tail(keys), seen)
         ELSE << Head(keys) >> \o Dedup(Tail(keys), seen \cup {Head(keys)})

\* d3.scaleBand().domain(chartData.map(d => d.time)): the distinct keys in
\* order of first occurrence.
BandDomain(series) == Dedup([i \in 1..Len(series) |-> series[i].time], {})

IndexOf(keys, k) == CHOOSE i \in 1..Len(keys) : keys[i] = k

\* ------------------------------------------------------- scales and layout
\* d3.scaleBand().range([margin.left, width - margin.right]).padding(0.3),
\* align 0.5, no rounding.  With n keys, r = |r1 - r0| and p = 0.3:
\*   step = r / max(1, n - p + 2p),  bandwidth = step * (1 - p),
\*   band k (0-based) starts at start + (r - step * (n - p)) / 2 + k * step,
\* and a reversed range (r1 < r0) lays the bands out from r1 in reverse order.
\* All positions are numerators over xScaleDen.
RangeLo(w) == IF w - MarginRight < MarginLeft THEN w - MarginRight ELSE MarginLeft
RangeHi(w) == IF w - MarginRight < MarginLeft THEN MarginLeft ELSE w - MarginRight
RangeLen(w) == RangeHi(w) - RangeLo(w)
RangeReversed(w) == w - MarginRight < MarginLeft

xScaleDen(series) == 10 * (10 * Len(BandDomain(series)) + PaddingTenths)

xScale(series, w, t) ==
    LET dom == BandDomain(series)
        m == Len(dom)
        k == IndexOf(dom, t) - 1
        j == IF RangeReversed(w) THEN m - 1 - k ELSE k
    IN  RangeLo(w) * xScaleDen(series) + 10 * (10 * j + PaddingTenths) * RangeLen(w)

\* xScale.bandwidth()
candleWidth(series, w) == 10 * (10 - PaddingTenths) * RangeLen(w)

\* .attr('x', d => xScale(d.time)! - candleWidth * 0.2)
HitAreaX(series, w, i) ==
    xScale(series, w, series[i].time)
        - (HitOffsetTenths * candleWidth(series, w)) \div 10

\* A hit area half as wide again as the band.
HitAreaWidthWider(series, w) == (15 * candleWidth(series, w)) \div 10

\* .attr('width', candleWidth * 1.4)
HitAreaWidth(series, w) == (HitWidthTenths * candleWidth(series, w)) \div 10

\* svg.selectAll('.hit-area').data(chartData).join('rect'): one rect per
\* element of chartData, in order.
HitAreas(series, w) ==
    [i \in 1..Len(series) |->
        [bar |-> series[i], x |-> HitAreaX(series, w, i), w |-> HitAreaWidth(series, w)]]

RECURSIVE d3min(_), d3max(_)
\* d3.min(values) / d3.max(values) over a non-empty sequence of numbers.
d3min(values) ==
    IF Len(values) = 1 THEN values[1]
    ELSE LET m == d3min(Tail(values))
         IN  IF values[1] < m THEN values[1] ELSE m
d3max(values) ==
    IF Len(values) = 1 THEN values[1]
    ELSE LET m == d3max(Tail(values))
         IN  IF values[1] > m THEN values[1] ELSE m

\* A price domain without the 2% padding.
yPriceScaleDomainUnpadded(series) ==
    << 100 * d3min([i \in 1..Len(series) |-> series[i].low]),
       100 * d3max([i \in 1..Len(series) |-> series[i].high]) >>

\* yPriceScale.domain(): [d3.min(low) * 0.98, d3.max(high) * 1.02], in
\* hundredths.
yPriceScaleDomain(series) ==
    << 98 * d3min([i \in 1..Len(series) |-> series[i].low]),
       102 * d3max([i \in 1..Len(series) |-> series[i].high]) >>

RECURSIVE NonNullIndices(_, _)
\* chartData.filter(d => d[key] !== null), as the indices of the bars kept.
NonNullIndices(series, i) ==
    IF i > Len(series) THEN <<>>
    ELSE IF series[i].ma5 # NoValue
         THEN << i >> \o NonNullIndices(series, i + 1)
         ELSE NonNullIndices(series, i + 1)

\* drawMALine('ma5', ...): one path through lineData; d3.line() without
\* .defined() joins every two consecutive points of its datum.
drawMALine(series) == NonNullIndices(series, 1)

\* The drawing surface.  cbNews / cbTicker are the news list and ticker
\* captured by the handleDateClick that the click listeners were bound to.
RECURSIVE EveryNth(_, _, _)
\* list.filter((_, i) => i % k === 0) for the part of list from its (0-based)
\* index i on.
EveryNth(list, i, k) ==
    IF i >= Len(list) THEN <<>>
    ELSE IF i % k = 0
         THEN << list[i + 1] >> \o EveryNth(list, i + 1, k)
         ELSE EveryNth(list, i + 1, k)

\* A time axis with a label for every key.
TickValuesEveryKey(series) == BandDomain(series)

\* xScale.domain().filter((_, i) => i % Math.ceil(chartData.length / 8) === 0)
TickValues(series) ==
    EveryNth(BandDomain(series), 0, (Len(series) + TickTarget - 1) \div TickTarget)

\* wicks, candles, volumeBars and crosshairs count the elements of each kind in
\* the svg.
Blank ==
    [drawn |-> FALSE, series |-> <<>>, width |-> 0, den |-> 1, hits |-> <<>>,
     wicks |-> 0, candles |-> 0, volumeBars |-> 0, crosshairs |-> 0,
     ticks |-> <<>>,
     priceDomain |-> << 0, 0 >>, ma5Path |-> <<>>,
     crossVisible |-> FALSE, crossX |-> 0, cbNews |-> <<>>, cbTicker |-> ""]

\* d3.select(svgRef.current).selectAll('*').remove()
ClearSvg(surf) == Blank

\* The draw effect after the clear.  selectAll(cls).data(chartData).join(el)
\* leaves exactly one element per bar whatever the svg held; svg.append adds
\* an element to what the svg holds.
DrawLayers(surf, series, w, hdcNews, hdcTicker) ==
    [drawn |-> TRUE, series |-> series, width |-> w, den |-> xScaleDen(series),
     hits |-> HitAreas(series, w),
     wicks |-> Len(series), candles |-> Len(series), volumeBars |-> Len(series),
     crosshairs |-> surf.crosshairs + 1,
     ticks |-> TickValues(series),
     priceDomain |-> yPriceScaleDomain(series), ma5Path |-> drawMALine(series),
     crossVisible |-> FALSE, crossX |-> 0,
     cbNews |-> hdcNews, cbTicker |-> hdcTicker]

\* A draw that appends to what the svg holds.
DrawWithoutClear(surf, series, w, hdcNews, hdcTicker) ==
    DrawLayers(surf, series, w, hdcNews, hdcTicker)

\* The body of the draw effect after its guard: clear, then draw every layer.
Draw(surf, series, w, hdcNews, hdcTicker) ==
    DrawLayers(ClearSvg(surf), series, w, hdcNews, hdcTicker)

\* useEffect(() => { if (!svgRef.current || ... || data.length === 0) return; ... })
DrawEffectRuns(mounted, series) == mounted /\ Len(series) > 0

\* A draw effect that draws only an svg that was not drawn yet.
DrawEffectOnce(mounted, surf, series, w, hdcNews, hdcTicker) ==
    IF DrawEffectRuns(mounted, series) /\ ~surf.drawn
    THEN Draw(surf, series, w, hdcNews, hdcTicker)
    ELSE surf

DrawEffect(mounted, surf, series, w, hdcNews, hdcTicker) ==
    IF DrawEffectRuns(mounted, series)
    THEN Draw(surf, series, w, hdcNews, hdcTicker)
    ELSE surf

\* if (loading) return <Loading/>; if (error) return <Error/>; return <chart/>
ChartShown(ld, err) == ~ld /\ err = ""

\* --------------------------------------------------------------- the state
\* After the first render and its effects: the initial useState values, and
\* the fetch effect has started fetchData (the ticker is not empty).
\* A request in flight is one pending promise.  Bars requests are numbered by
\* the fetchData call that issued them and news requests by the date
\* selection that issued them; the code keeps no such numbers, they are the
\* observer's.
Init ==
    /\ ticker \in Tickers
    /\ period \in Periods
    /\ data = <<>>
    /\ news = <<>>
    /\ loading = TRUE
    /\ error = ""
    /\ hoveredData = Null
    /\ selectedDate = NoDate
    /\ selectedNews = <<>>
    /\ loadingNews = FALSE
    /\ barReqs = {[id |-> 1, ticker |-> ticker, period |-> period]}
    /\ newsReqs = {}
    /\ nextBarId = 2
    /\ selGen = 0
    /\ svgMounted = FALSE
    /\ surface = Blank
    /\ width \in Widths
    /\ pointer = -1
    /\ drew = FALSE
    /\ disposed = FALSE
    /\ NewsIdle
    /\ LwIdle
    /\ HomeInitial
    /\ TabIdle
    /\ PanelIdle

\* Where the pointer is after the surface was replaced under it: -1 outside
\* the svg, 0 inside the svg on no hit area, i >= 1 on hit area i.
PointerAfter(mounted, surf) ==
    IF ~mounted THEN -1
    ELSE IF pointer > Len(surf.hits) THEN 0
    ELSE pointer

\* ------------------------------------------------------------- bars loading
\* The parent renders the component with new props.  handleDateClick is
\* re-created when the ticker changes (useCallback deps [news, ticker]), which
\* re-runs the draw effect (deps [data, handleDateClick]) on the svg of this
\* commit; the fetch effect (deps [ticker, period]) calls fetchData, whose
\* setLoading(true) / setError('') then replace the chart by the loading view.
ChangeProps(t, p) ==
    LET tickerChanged == t # ticker
        fetches == t # ""
        afterDraw == IF tickerChanged
                     THEN DrawEffect(svgMounted, surface, data, width, news, t)
                     ELSE surface
        ld == IF fetches THEN TRUE ELSE loading
        err == IF fetches THEN "" ELSE error
    IN  /\ ~disposed
        /\ << t, p >> # << ticker, period >>
        /\ fetches => nextBarId <= MaxFetches
        /\ ticker' = t
        /\ period' = p
        /\ loading' = ld
        /\ error' = err
        /\ barReqs' = IF fetches
                      THEN barReqs \cup {[id |-> nextBarId, ticker |-> t, period |-> p]}
                      ELSE barReqs
        /\ nextBarId' = IF fetches THEN nextBarId + 1 ELSE nextBarId
        /\ svgMounted' = ChartShown(ld, err)
        /\ surface' = IF ChartShown(ld, err) THEN afterDraw ELSE Blank
        /\ pointer' = PointerAfter(ChartShown(ld, err), afterDraw)
        /\ drew' = (tickerChanged /\ DrawEffectRuns(svgMounted, data))
        /\ UNCHANGED << disposed, outsideChart,
                        data, news, hoveredData, selectedDate, selectedNews,
                        loadingNews, newsReqs, selGen, width >>

\* A successful load whose render also resets the hover and the selection.
FetchSuccessResetting(r, series, list) ==
    LET shown == ChartShown(FALSE, error)
        before == IF svgMounted /\ shown THEN surface ELSE Blank
        after == DrawEffect(shown, before, series, width, list, ticker)
    IN  /\ ~disposed
        /\ r \in barReqs
        /\ barReqs' = barReqs \ {r}
        /\ data' = series
        /\ news' = list
        /\ loading' = FALSE
        /\ hoveredData' = Null
        /\ selectedDate' = NoDate
        /\ svgMounted' = shown
        /\ surface' = after
        /\ pointer' = PointerAfter(shown, after)
        /\ drew' = DrawEffectRuns(shown, series)
        /\ UNCHANGED << disposed, outsideChart,
                        ticker, period, error,
                        selectedNews, loadingNews, newsReqs, nextBarId, selGen,
                        width >>

\* fetchData resumes with result.success: setData, setNews, and in the
\* finally block setLoading(false).  The new data array re-runs the draw
\* effect, which returns before clearing when the svg is not rendered or the
\* series is empty.
FetchSuccess(r, series, list) ==
    LET shown == ChartShown(FALSE, error)
        before == IF svgMounted /\ shown THEN surface ELSE Blank
        after == DrawEffect(shown, before, series, width, list, ticker)
    IN  /\ ~disposed
        /\ r \in barReqs
        /\ barReqs' = barReqs \ {r}
        /\ data' = series
        /\ news' = list
        /\ loading' = FALSE
        /\ svgMounted' = shown
        /\ surface' = after
        /\ pointer' = PointerAfter(shown, after)
        /\ drew' = DrawEffectRuns(shown, series)
        /\ UNCHANGED << disposed, outsideChart,
                        ticker, period, error, hoveredData, selectedDate,
                        selectedNews, loadingNews, newsReqs, nextBarId, selGen,
                        width >>

\* A failed load that also drops the series and news loaded before.
FetchFailureClearing(r, threw, msg) ==
    /\ ~disposed
    /\ r \in barReqs
    /\ barReqs' = barReqs \ {r}
    /\ error' = "Failed to connect to server"
    /\ loading' = FALSE
    /\ data' = <<>>
    /\ news' = <<>>
    /\ svgMounted' = FALSE
    /\ surface' = Blank
    /\ pointer' = -1
    /\ drew' = FALSE
    /\ UNCHANGED << disposed, outsideChart,
                    ticker, period, hoveredData, selectedDate,
                    selectedNews, loadingNews, newsReqs, nextBarId, selGen,
                    width >>

\* A failed load without the finally block.
FetchFailureNoFinally(r, threw, msg) ==
    /\ ~disposed
    /\ r \in barReqs
    /\ barReqs' = barReqs \ {r}
    /\ error' = "Failed to connect to server"
    /\ svgMounted' = FALSE
    /\ surface' = Blank
    /\ pointer' = -1
    /\ drew' = FALSE
    /\ UNCHANGED << disposed, outsideChart,
                    ticker, period, data, news, loading, hoveredData,
                    selectedDate, selectedNews, loadingNews, newsReqs,
                    nextBarId, selGen, width >>

\* fetchData resumes with success = false (msg is result.error) or the fetch
\* throws: setError, then setLoading(false).
FetchFailure(r, threw, msg) ==
    /\ ~disposed
    /\ r \in barReqs
    /\ barReqs' = barReqs \ {r}
    /\ error' = IF threw THEN "Failed to connect to server"
                ELSE IF msg # "" THEN msg ELSE "Failed to fetch data"
    /\ loading' = FALSE
    /\ svgMounted' = FALSE
    /\ surface' = Blank
    /\ pointer' = -1
    /\ drew' = FALSE
    /\ UNCHANGED << disposed, outsideChart,
                    ticker, period, data, news, hoveredData, selectedDate,
                    selectedNews, loadingNews, newsReqs, nextBarId, selGen,
                    width >>

\* ------------------------------------------------------------ pointer events
\* Hit area i can receive the pointer when it has an extent and is not wholly
\* covered by a later rect (rects of equal keys coincide; later ones are on top).
Reachable(surf, i) ==
    /\ i \in 1..Len(surf.hits)
    /\ surf.hits[i].w > 0
    /\ \A j \in (i + 1)..Len(surf.hits) : surf.hits[j].x # surf.hits[i].x

\* A crosshair at the left edge of the band.
CrosshairAtBandStart(surf, i) ==
    xScale(surf.series, surf.width, surf.hits[i].bar.time)

\* xScale(d.time)! + candleWidth / 2, for the bar of hit area i of the surface.
CrosshairX(surf, i) ==
    xScale(surf.series, surf.width, surf.hits[i].bar.time)
        + candleWidth(surf.series, surf.width) \div 2

\* .on('mouseenter', (_, d) => { setHoveredData(d); crosshairV...opacity 1 })
HitAreaMouseEnter(i) ==
    /\ surface.drawn
    /\ Reachable(surface, i)
    /\ pointer # i
    /\ pointer' = i
    /\ hoveredData' = surface.hits[i].bar
    /\ surface' = [surface EXCEPT !.crossVisible = TRUE,
                                  !.crossX = CrosshairX(surface, i)]
    /\ drew' = FALSE
    /\ UNCHANGED << disposed, outsideChart,
                    ticker, period, data, news, loading, error, selectedDate,
                    selectedNews, loadingNews, barReqs, newsReqs, nextBarId,
                    selGen, svgMounted, width >>

\* A surface whose background clears the hover when the pointer is on it.
PointerOffAreasClearing ==
    /\ svgMounted
    /\ pointer # 0
    /\ pointer' = 0
    /\ hoveredData' = Null
    /\ drew' = FALSE
    /\ UNCHANGED << disposed, outsideChart,
                    ticker, period, data, news, loading, error,
                    selectedDate, selectedNews, loadingNews, barReqs, newsReqs,
                    nextBarId, selGen, svgMounted, surface, width >>

\* The pointer moves to a place of the svg that no hit area covers (a margin,
\* the space between two hit areas): no listener is bound there.
PointerOffAreas ==
    /\ svgMounted
    /\ pointer # 0
    /\ pointer' = 0
    /\ drew' = FALSE
    /\ UNCHANGED << disposed, outsideChart,
                    ticker, period, data, news, loading, error, hoveredData,
                    selectedDate, selectedNews, loadingNews, barReqs, newsReqs,
                    nextBarId, selGen, svgMounted, surface, width >>

\* svg.on('mouseleave', () => { setHoveredData(null); crosshairV opacity 0 }),
\* bound by the draw effect: an svg that was never drawn has no listener.
SvgMouseLeave ==
    /\ svgMounted
    /\ pointer >= 0
    /\ pointer' = -1
    /\ hoveredData' = IF surface.drawn THEN Null ELSE hoveredData
    /\ surface' = IF surface.drawn THEN [surface EXCEPT !.crossVisible = FALSE]
                  ELSE surface
    /\ drew' = FALSE
    /\ UNCHANGED << disposed, outsideChart,
                    ticker, period, data, news, loading, error, selectedDate,
                    selectedNews, loadingNews, barReqs, newsReqs, nextBarId,
                    selGen, svgMounted, width >>

\* The container's clientWidth changes.  The component registers no resize
\* listener and the draw effect depends on [data, handleDateClick] only.
Resize(w) ==
    /\ ~disposed
    /\ w # width
    /\ width' = w
    /\ drew' = FALSE
    /\ UNCHANGED << disposed, outsideChart,
                    ticker, period, data, news, loading, error, hoveredData,
                    selectedDate, selectedNews, loadingNews, barReqs, newsReqs,
                    nextBarId, selGen, svgMounted, surface, pointer >>

\* ---------------------------------------------------------- news correlation
\* handleDateClick(date) up to its first await, for the handleDateClick that
\* closed over the news list hdcNews and the ticker hdcTicker.
handleDateClick(hdcNews, hdcTicker, date) ==
    LET matched == Filter(hdcNews, date)
    IN  /\ selGen' = selGen + 1
        /\ selectedDate' = date
        /\ IF Len(matched) > 0
           THEN /\ selectedNews' = matched
                /\ loadingNews' = FALSE
                /\ newsReqs' = newsReqs
           ELSE /\ selectedNews' = <<>>
                /\ loadingNews' = TRUE
                /\ newsReqs' = newsReqs \cup
                       {[sel |-> selGen + 1, ticker |-> hdcTicker, date |-> date]}

\* .on('click', (_, d) => handleDateClick(d.time)): the listener calls the
\* handleDateClick that the draw which created the rect was given.
HitAreaClick(i) ==
    /\ surface.drawn
    /\ Reachable(surface, i)
    /\ pointer = i
    /\ selGen < MaxSelections
    /\ handleDateClick(surface.cbNews, surface.cbTicker, surface.hits[i].bar.time)
    /\ drew' = FALSE
    /\ UNCHANGED << disposed, outsideChart,
                    ticker, period, data, news, loading, error, hoveredData,
                    barReqs, nextBarId, svgMounted, surface, width, pointer >>

\* A news resolver that also stores the fallback result in the news list.
NewsSuccessCaching(r, list) ==
    /\ ~disposed
    /\ r \in newsReqs
    /\ newsReqs' = newsReqs \ {r}
    /\ selectedNews' = list
    /\ news' = news \o list
    /\ loadingNews' = FALSE
    /\ drew' = FALSE
    /\ UNCHANGED << disposed, outsideChart,
                    ticker, period, data, loading, error, hoveredData,
                    selectedDate, barReqs, nextBarId, selGen, svgMounted,
                    surface, width, pointer >>

\* handleDateClick resumes with result.success: setSelectedNews(result.news),
\* then setLoadingNews(false).
NewsSuccess(r, list) ==
    /\ ~disposed
    /\ r \in newsReqs
    /\ newsReqs' = newsReqs \ {r}
    /\ selectedNews' = list
    /\ loadingNews' = FALSE
    /\ drew' = FALSE
    /\ UNCHANGED << disposed, outsideChart,
                    ticker, period, data, news, loading, error, hoveredData,
                    selectedDate, barReqs, nextBarId, selGen, svgMounted,
                    surface, width, pointer >>

\* handleDateClick resumes with success = false, or the fetch throws: only
\* the finally block's setLoadingNews(false) runs.
NewsFailure(r) ==
    /\ ~disposed
    /\ r \in newsReqs
    /\ newsReqs' = newsReqs \ {r}
    /\ loadingNews' = FALSE
    /\ drew' = FALSE
    /\ UNCHANGED << disposed, outsideChart,
                    ticker, period, data, news, loading, error, hoveredData,
                    selectedDate, selectedNews, barReqs, nextBarId, selGen,
                    svgMounted, surface, width, pointer >>

\* ------------------------------------------------------------------ teardown
\* The parent stops rendering the component (page.tsx renders it only while
\* mainTab === 'chart'): React removes its DOM and discards its state.  No
\* effect of the component has a cleanup, so the requests in flight stay in
\* flight.
Unmount ==
    /\ ~disposed
    /\ disposed' = TRUE
    /\ svgMounted' = FALSE
    /\ surface' = Blank
    /\ pointer' = -1
    /\ drew' = FALSE
    /\ UNCHANGED << outsideChart,
                    ticker, period, data, news, loading, error, hoveredData,
                    selectedDate, selectedNews, loadingNews, barReqs, newsReqs,
                    nextBarId, selGen, width >>

\* A torn-down component whose late fetchData continuation is applied.
BarsSettleDisposedApplied(r) ==
    /\ disposed
    /\ r \in barReqs
    /\ barReqs' = barReqs \ {r}
    /\ loading' = FALSE
    /\ UNCHANGED << outsideChart,
                    ticker, period, data, news, error, hoveredData,
                    selectedDate, selectedNews, loadingNews, newsReqs,
                    nextBarId, selGen, svgMounted, surface, width, pointer,
                    drew, disposed >>

\* fetchData resumes after the component was unmounted: React 18 ignores the
\* setData / setNews / setError / setLoading calls of an unmounted component,
\* and no render or effect follows.
BarsSettleDisposed(r) ==
    /\ disposed
    /\ r \in barReqs
    /\ barReqs' = barReqs \ {r}
    /\ UNCHANGED << outsideChart,
                    ticker, period, data, news, loading, error, hoveredData,
                    selectedDate, selectedNews, loadingNews, newsReqs,
                    nextBarId, selGen, svgMounted, surface, width, pointer,
                    drew, disposed >>

\* handleDateClick resumes after the component was unmounted: its
\* setSelectedNews / setLoadingNews calls are ignored as well.
NewsSettleDisposed(r) ==
    /\ disposed
    /\ r \in newsReqs
    /\ newsReqs' = newsReqs \ {r}
    /\ UNCHANGED << outsideChart,
                    ticker, period, data, news, loading, error, hoveredData,
                    selectedDate, selectedNews, loadingNews, barReqs,
                    nextBarId, selGen, svgMounted, surface, width, pointer,
                    drew, disposed >>

Next ==
    \/ \E t \in Tickers, p \in Periods : ChangeProps(t, p)
    \/ \E r \in barReqs, s \in ServerSeries, l \in ServerNews : FetchSuccess(r, s, l)
    \/ \E r \in barReqs, threw \in BOOLEAN, m \in ServerErrors : FetchFailure(r, threw, m)
    \/ \E i \in 1..MaxBars : HitAreaMouseEnter(i)
    \/ PointerOffAreas
    \/ SvgMouseLeave
    \/ \E w \in Widths : Resize(w)
    \/ \E i \in 1..MaxBars : HitAreaClick(i)
    \/ \E r \in newsReqs, l \in FallbackNews : NewsSuccess(r, l)
    \/ \E r \in newsReqs : NewsFailure(r)
    \/ Unmount
    \/ \E r \in barReqs : BarsSettleDisposed(r)
    \/ \E r \in newsReqs : NewsSettleDisposed(r)

Spec == Init /\ [][Next]_vars

\* ---------------------------------------------- the component without news
\* The component when no date is ever selected: loads, pointer movement,
\* resizes and teardown.
LoadNext ==
    \/ \E t \in Tickers, p \in Periods : ChangeProps(t, p)
    \/ \E r \in barReqs, s \in ServerSeries, l \in ServerNews : FetchSuccess(r, s, l)
    \/ \E r \in barReqs, threw \in BOOLEAN, m \in ServerErrors : FetchFailure(r, threw, m)
    \/ \E i \in 1..MaxBars : HitAreaMouseEnter(i)
    \/ PointerOffAreas
    \/ SvgMouseLeave
    \/ \E w \in Widths : Resize(w)
    \/ Unmount
    \/ \E r \in barReqs : BarsSettleDisposed(r)

LoadSpec == Init /\ [][LoadNext]_vars

\* Some bars request in flight completes: the fetch promise settles and
\* fetchData resumes.
BarsComplete ==
    \/ \E r \in barReqs, s \in ServerSeries, l \in ServerNews : FetchSuccess(r, s, l)
    \/ \E r \in barReqs, threw \in BOOLEAN, m \in ServerErrors : FetchFailure(r, threw, m)
    \/ \E r \in barReqs : BarsSettleDisposed(r)

\* LoadSpec when every bars request that was started completes.
FairLoadSpec == LoadSpec /\ WF_vars(BarsComplete)

\* ------------------------------------- the component in a container that
\* keeps its width: every step of the component but the resize.
TeardownInit == Init /\ width = 800

TeardownNext ==
    \/ \E t \in Tickers, p \in Periods : ChangeProps(t, p)
    \/ \E r \in barReqs, s \in ServerSeries, l \in ServerNews : FetchSuccess(r, s, l)
    \/ \E r \in barReqs, threw \in BOOLEAN, m \in ServerErrors : FetchFailure(r, threw, m)
    \/ \E i \in 1..MaxBars : HitAreaMouseEnter(i)
    \/ PointerOffAreas
    \/ SvgMouseLeave
    \/ \E i \in 1..MaxBars : HitAreaClick(i)
    \/ \E r \in newsReqs, l \in FallbackNews : NewsSuccess(r, l)
    \/ \E r \in newsReqs : NewsFailure(r)
    \/ Unmount
    \/ \E r \in barReqs : BarsSettleDisposed(r)
    \/ \E r \in newsReqs : NewsSettleDisposed(r)

TeardownSpec == TeardownInit /\ [][TeardownNext]_vars

\* ------------------------------------------------------ the layout in isolation
\* The draw effect applied to every series of LayoutSeries at every width of
\* LayoutWidths, on a rendered svg that was not drawn yet.
LayoutInit ==
    /\ ticker \in Tickers
    /\ period \in Periods
    /\ data \in LayoutSeries
    /\ news = <<>>
    /\ loading = FALSE
    /\ error = ""
    /\ hoveredData = Null
    /\ selectedDate = NoDate
    /\ selectedNews = <<>>
    /\ loadingNews = FALSE
    /\ barReqs = {}
    /\ newsReqs = {}
    /\ nextBarId = 2
    /\ selGen = 0
    /\ svgMounted = TRUE
    /\ surface = Blank
    /\ width \in LayoutWidths
    /\ pointer = -1
    /\ drew = FALSE
    /\ disposed = FALSE
    /\ NewsIdle
    /\ LwIdle
    /\ HomeInitial
    /\ TabIdle
    /\ PanelIdle

LayoutDraw ==
    /\ ~surface.drawn
    /\ surface' = DrawEffect(svgMounted, surface, data, width, news, ticker)
    /\ drew' = DrawEffectRuns(svgMounted, data)
    /\ UNCHANGED << disposed, outsideChart,
                    ticker, period, data, news, loading, error, hoveredData,
                    selectedDate, selectedNews, loadingNews, barReqs, newsReqs,
                    nextBarId, selGen, svgMounted, width, pointer >>

\* The draw, and the pointer events on the surface it has drawn.
LayoutNext ==
    \/ LayoutDraw
    \/ \E i \in 1..MaxBars : HitAreaMouseEnter(i)
    \/ PointerOffAreas
    \/ SvgMouseLeave

LayoutSpec == LayoutInit /\ [][LayoutNext]_vars

\* ============ the lightweight-charts component (CandlestickChart.tsx)
\* The component has the props and the useState fields of the D3 component,
\* and the same fetchData and handleDateClick; the variables ticker ..
\* loadingNews, barReqs, newsReqs, width and disposed stand for them here.
\* Its chart is a lightweight-charts chart created by an effect with deps
\* [data] that returns a cleanup.

\* A chart effect that returns no cleanup.
LwChartEffectNoCleanup(mounted, series, w) ==
    IF ~mounted \/ Len(series) = 0
    THEN [chartRef |-> chartRef, charts |-> charts,
          resizeListeners |-> resizeListeners, effectCleanup |-> 0,
          chartsCreated |-> chartsCreated]
    ELSE [chartRef |-> chartsCreated + 1,
          charts |-> {c \in charts : c.id # chartRef}
                         \cup {[id |-> chartsCreated + 1, width |-> w]},
          resizeListeners |-> resizeListeners \cup {chartsCreated + 1},
          effectCleanup |-> 0,
          chartsCreated |-> chartsCreated + 1]

\* The chart effect re-runs because data is a new array: React first runs the
\* cleanup the previous run returned (removeEventListener, chart.remove()),
\* then the body.  The body returns early, without a cleanup, when the
\* container is not rendered or the series is empty; otherwise it removes the
\* chart chartRef.current holds (a second remove() throws and is caught),
\* creates a chart at the container's width, stores it in chartRef, registers
\* handleResize and returns the cleanup.
LwChartEffect(mounted, series, w) ==
    LET cleanedCharts == {c \in charts : c.id # effectCleanup}
        cleanedListeners == resizeListeners \ {effectCleanup}
    IN  IF ~mounted \/ Len(series) = 0
        THEN [chartRef |-> chartRef, charts |-> cleanedCharts,
              resizeListeners |-> cleanedListeners, effectCleanup |-> 0,
              chartsCreated |-> chartsCreated]
        ELSE [chartRef |-> chartsCreated + 1,
              charts |-> {c \in cleanedCharts : c.id # chartRef}
                             \cup {[id |-> chartsCreated + 1, width |-> w]},
              resizeListeners |-> cleanedListeners \cup {chartsCreated + 1},
              effectCleanup |-> chartsCreated + 1,
              chartsCreated |-> chartsCreated + 1]

\* The chart of the rendered container, if there is one.
LwChartDisplayed ==
    /\ ~disposed
    /\ ChartShown(loading, error)
    /\ effectCleanup # 0

\* New props: the fetch effect (deps [ticker, period]) calls fetchData, whose
\* setLoading(true) / setError('') replace the chart view, and with it the
\* container div, by the loading view.  data is the same array: the chart
\* effect does not re-run and its cleanup is not called.
LwChangeProps(t, p) ==
    /\ ~disposed
    /\ << t, p >> # << ticker, period >>
    /\ t # ""
    /\ nextBarId <= MaxLoads
    /\ ticker' = t
    /\ period' = p
    /\ loading' = TRUE
    /\ error' = ""
    /\ barReqs' = barReqs \cup {[id |-> nextBarId, ticker |-> t, period |-> p]}
    /\ nextBarId' = nextBarId + 1
    /\ UNCHANGED << outsideCharts, lwVars,
                    data, news, hoveredData, selectedDate, selectedNews,
                    loadingNews, newsReqs, selGen, svgMounted, surface, width,
                    pointer, drew, disposed >>

\* fetchData resumes with result.success: setData, setNews, setLoading(false);
\* the commit re-runs the chart effect.
LwFetchSuccess(r, series, list) ==
    LET eff == LwChartEffect(ChartShown(FALSE, error), series, width)
    IN  /\ ~disposed
        /\ r \in barReqs
        /\ barReqs' = barReqs \ {r}
        /\ data' = series
        /\ news' = list
        /\ loading' = FALSE
        /\ chartRef' = eff.chartRef
        /\ charts' = eff.charts
        /\ resizeListeners' = eff.resizeListeners
        /\ effectCleanup' = eff.effectCleanup
        /\ chartsCreated' = eff.chartsCreated
        /\ UNCHANGED << outsideCharts,
                        ticker, period, error, hoveredData, selectedDate,
                        selectedNews, loadingNews, newsReqs, nextBarId, selGen,
                        svgMounted, surface, width, pointer, drew, disposed >>

\* fetchData resumes with success = false or the fetch throws: setError,
\* setLoading(false).  The error view replaces the container; the chart
\* effect does not re-run.
LwFetchFailure(r, threw, msg) ==
    /\ ~disposed
    /\ r \in barReqs
    /\ barReqs' = barReqs \ {r}
    /\ error' = IF threw THEN "Failed to connect to server"
                ELSE IF msg # "" THEN msg ELSE "Failed to fetch data"
    /\ loading' = FALSE
    /\ UNCHANGED << outsideCharts, lwVars,
                    ticker, period, data, news, hoveredData, selectedDate,
                    selectedNews, loadingNews, newsReqs, nextBarId, selGen,
                    svgMounted, surface, width, pointer, drew, disposed >>

\* The window is resized: every registered handleResize runs, and applies the
\* container's width to its chart when chartContainerRef.current is set.
LwWindowResize(w) ==
    /\ ~disposed
    /\ w # width
    /\ width' = w
    /\ charts' = { IF c.id \in resizeListeners /\ ChartShown(loading, error)
                   THEN [c EXCEPT !.width = w] ELSE c : c \in charts }
    /\ UNCHANGED << outsideCharts, chartRef, resizeListeners, effectCleanup,
                    chartsCreated,
                    ticker, period, data, news, loading, error, hoveredData,
                    selectedDate, selectedNews, loadingNews, barReqs, newsReqs,
                    nextBarId, selGen, svgMounted, surface, pointer, drew,
                    disposed >>

\* chart.subscribeCrosshairMove: param.time is the day under the crosshair
\* (t = NoDate when there is none); data is the array the chart was made from.
LwCrosshairMove(t) ==
    /\ LwChartDisplayed
    /\ t = NoDate \/ \E i \in 1..Len(data) : data[i].time = t
    /\ hoveredData' =
           IF t = NoDate THEN Null
           ELSE data[CHOOSE i \in 1..Len(data) :
                       /\ data[i].time = t
                       /\ \A j \in 1..(i - 1) : data[j].time # t]
    /\ hoveredData' # hoveredData
    /\ UNCHANGED << outsideCharts, lwVars,
                    ticker, period, data, news, loading, error, selectedDate,
                    selectedNews, loadingNews, barReqs, newsReqs, nextBarId,
                    selGen, svgMounted, surface, width, pointer, drew,
                    disposed >>

\* chart.subscribeClick: handleDateClick(param.time) of the render that
\* created the chart, which is the current one (news and ticker change only
\* together with a new chart or with the loading view).
LwChartClick(t) ==
    /\ LwChartDisplayed
    /\ \E i \in 1..Len(data) : data[i].time = t
    /\ selGen < MaxSelections
    /\ handleDateClick(news, ticker, t)
    /\ UNCHANGED << outsideCharts, lwVars,
                    ticker, period, data, news, loading, error, hoveredData,
                    barReqs, nextBarId, svgMounted, surface, width, pointer,
                    drew, disposed >>

\* The parent stops rendering the component: React runs the cleanup of the
\* last chart effect run, if it returned one.
LwUnmount ==
    /\ ~disposed
    /\ disposed' = TRUE
    /\ charts' = {c \in charts : c.id # effectCleanup}
    /\ resizeListeners' = resizeListeners \ {effectCleanup}
    /\ effectCleanup' = 0
    /\ UNCHANGED << outsideCharts, chartRef, chartsCreated,
                    ticker, period, data, news, loading, error, hoveredData,
                    selectedDate, selectedNews, loadingNews, barReqs, newsReqs,
                    nextBarId, selGen, svgMounted, surface, width, pointer,
                    drew >>

\* The continuations of handleDateClick and the completions after the
\* unmount are those of the D3 component.
LwNext ==
    \/ \E t \in Tickers, p \in Periods : LwChangeProps(t, p)
    \/ \E r \in barReqs, s \in ServerSeries, l \in ServerNews : LwFetchSuccess(r, s, l)
    \/ \E r \in barReqs, threw \in BOOLEAN, m \in ServerErrors : LwFetchFailure(r, threw, m)
    \/ \E w \in Widths : LwWindowResize(w)
    \/ \E t \in 0..MaxTime : LwCrosshairMove(t)
    \/ \E t \in 1..MaxTime : LwChartClick(t)
    \/ \E r \in newsReqs, l \in FallbackNews : NewsSuccess(r, l)
    \/ \E r \in newsReqs : NewsFailure(r)
    \/ LwUnmount
    \/ \E r \in barReqs : BarsSettleDisposed(r)
    \/ \E r \in newsReqs : NewsSettleDisposed(r)

LwSpec == Init /\ [][LwNext]_vars

\* The component when no date is ever clicked: loads, window resizes, the
\* crosshair and the teardown.
LwLoadNext ==
    \/ \E t \in Tickers, p \in Periods : LwChangeProps(t, p)
    \/ \E r \in barReqs, s \in ServerSeries, l \in ServerNews : LwFetchSuccess(r, s, l)
    \/ \E r \in barReqs, threw \in BOOLEAN, m \in ServerErrors : LwFetchFailure(r, threw, m)
    \/ \E w \in Widths : LwWindowResize(w)
    \/ \E t \in 0..MaxTime : LwCrosshairMove(t)
    \/ LwUnmount
    \/ \E r \in barReqs : BarsSettleDisposed(r)

LwLoadSpec == Init /\ [][LwLoadNext]_vars

\* ============================================== fetch_all_news (part_004)
\* What yfinance knows: the content of an article is fixed by its id.  Dates
\* are day numbers, 0 for the empty string; NoUrl is the url None.
NoUrl == "None"
Article(id, title, url, pubDate) ==
    [id |-> id, title |-> title, url |-> url, pubDate |-> pubDate]
Articles ==
    { Article("a", "Fed holds rates", "u1", 2),
      Article("b", "Fed holds rates", "u2", 1),
      Article("c", "Chip demand", NoUrl, 0) }
PortfolioTickers == {"AAPL", "MSFT"}

\* The ticker_groups a caller can pass.
TickerGroupsInputs ==
    { << >>,
      << [tickers |-> << "AAPL" >>] >>,
      << [tickers |-> << "AAPL", "MSFT" >>], [tickers |-> << "MSFT" >>] >> }

\* What yf.Ticker(t).get_news(count) can deliver: up to MaxNewsPerTicker
\* articles in any order, repeats included (an exception gives the empty list).
NewsFeeds == UNION { [1..n -> Articles] : n \in 0..MaxNewsPerTicker }

\* get_unique_tickers(ticker_groups)
get_unique_tickers(groups) ==
    UNION { { groups[g].tickers[k] : k \in 1..Len(groups[g].tickers) } :
            g \in 1..Len(groups) }

\* fetch_news_for_ticker(ticker): each article with 'tickers': [ticker].
fetch_news_for_ticker(t, feed) ==
    [k \in 1..Len(feed) |->
        [id |-> feed[k].id, title |-> feed[k].title, url |-> feed[k].url,
         pubDate |-> feed[k].pubDate, tickers |-> << t >>]]

\* A dict is kept as the sequence of its values in insertion order.
HasId(map, id) == \E k \in 1..Len(map) : map[k].id = id
PosOf(map, id) == CHOOSE k \in 1..Len(map) : map[k].id = id
Contains(list, x) == \E k \in 1..Len(list) : list[k] = x

\* news_map[item['id']] = item: a new key goes last, a known key keeps its place.
DictPut(map, item) ==
    IF HasId(map, item.id)
    THEN [map EXCEPT ![PosOf(map, item.id)] = item]
    ELSE Append(map, item)

RECURSIVE DictFromList(_, _)
\* {news['id']: news for news in cached_news}, continued from the dict map.
DictFromList(map, list) ==
    IF list = <<>> THEN map
    ELSE DictFromList(DictPut(map, Head(list)), Tail(list))

\* A merge that appends the ticker without looking for it.
MergeItemAlwaysAppend(map, t, item) ==
    IF HasId(map, item.id)
    THEN [map EXCEPT ![PosOf(map, item.id)].tickers = Append(@, t)]
    ELSE Append(map, item)

\* The body of "for news in ticker_news" for one item.
MergeItem(map, t, item) ==
    IF HasId(map, item.id)
    THEN LET k == PosOf(map, item.id)
         IN  IF Contains(map[k].tickers, t) THEN map
             ELSE [map EXCEPT ![k].tickers = Append(@, t)]
    ELSE Append(map, item)

RECURSIVE MergeTickerNews(_, _, _)
MergeTickerNews(map, t, items) ==
    IF items = <<>> THEN map
    ELSE MergeTickerNews(MergeItem(map, t, Head(items)), t, Tail(items))

RECURSIVE InsertByDateDesc(_, _)
\* Insert x behind every element whose pubDate is not below its own.
InsertByDateDesc(sorted, x) ==
    IF sorted = <<>> THEN << x >>
    ELSE IF Head(sorted).pubDate >= x.pubDate
         THEN << Head(sorted) >> \o InsertByDateDesc(Tail(sorted), x)
         ELSE << x >> \o sorted

RECURSIVE SortFrom(_, _)
SortFrom(sorted, list) ==
    IF list = <<>> THEN sorted
    ELSE SortFrom(InsertByDateDesc(sorted, Head(list)), Tail(list))

\* A list left in insertion order.
Unsorted(list) == list

\* all_news.sort(key=lambda x: x.get('pubDate', ''), reverse=True): a stable
\* sort, descending, equal dates keep their order.
SortByDateDesc(list) == SortFrom(<<>>, list)

\* No chart component is part of this program.
NoChart ==
    /\ ticker = ""
    /\ period = ""
    /\ data = <<>>
    /\ news = <<>>
    /\ loading = FALSE
    /\ error = ""
    /\ hoveredData = Null
    /\ selectedDate = NoDate
    /\ selectedNews = <<>>
    /\ loadingNews = FALSE
    /\ barReqs = {}
    /\ newsReqs = {}
    /\ nextBarId = 1
    /\ selGen = 0
    /\ svgMounted = FALSE
    /\ surface = Blank
    /\ width = 0
    /\ pointer = -1
    /\ drew = FALSE
    /\ disposed = TRUE

NewsInit == NoChart /\ NewsIdle /\ LwIdle /\ HomeInitial /\ TabIdle /\ PanelIdle

\* fetch_all_news(ticker_groups) up to the loop: load the cache, build
\* news_map from it, collect the tickers.
StartFetchAll(groups) ==
    /\ pc # "loop"
    /\ calls < MaxCalls
    /\ calls' = calls + 1
    /\ news_map' = DictFromList(<<>>, cacheFile)
    /\ pending' = get_unique_tickers(groups)
    /\ fetched' = {}
    /\ all_news' = <<>>
    /\ pc' = "loop"
    /\ UNCHANGED << outsideNews, cacheFile >>

\* One iteration of "for i, ticker in enumerate(tickers, 1)": a set is
\* iterated in no particular order.
FetchTickerNews(t, feed) ==
    /\ pc = "loop"
    /\ t \in pending
    /\ pending' = pending \ {t}
    /\ news_map' = MergeTickerNews(news_map, t, fetch_news_for_ticker(t, feed))
    /\ fetched' = fetched \cup { << t, feed[k].id >> : k \in 1..Len(feed) }
    /\ UNCHANGED << outsideNews, cacheFile, all_news, pc, calls >>

\* After the loop: sort, save_news_cache (which swallows an IOError: the file
\* is then as it was, or cut short so that load_news_cache returns []), return.
SortSaveReturn(saved) ==
    /\ pc = "loop"
    /\ pending = {}
    /\ all_news' = SortByDateDesc(news_map)
    /\ cacheFile' = IF saved = "written" THEN SortByDateDesc(news_map)
                    ELSE IF saved = "unchanged" THEN cacheFile
                    ELSE <<>>
    /\ pc' = IF saved = "written" THEN "returned" ELSE "returned_unsaved"
    /\ UNCHANGED << outsideNews, news_map, pending, fetched, calls >>

NewsNext ==
    \/ \E g \in TickerGroupsInputs : StartFetchAll(g)
    \/ \E t \in PortfolioTickers, f \in NewsFeeds : FetchTickerNews(t, f)
    \/ \E sv \in {"written", "unchanged", "truncated"} : SortSaveReturn(sv)

NewsSpec == NewsInit /\ [][NewsNext]_vars

\* ====================================== the home page (app/page.tsx)
\* What the user can type into the ticker field.
TypedTexts == {"", " ", "aapl", "msft"}

\* String.prototype.toUpperCase and trim on the texts above.
toUpperCase(str) ==
    CASE str = "aapl" -> "AAPL"
      [] str = "msft" -> "MSFT"
      [] str = "amd" -> "AMD"
      [] OTHER -> str

trim(str) == IF str = " " THEN "" ELSE str

\* What POST /api/analyze answers for the ticker it was asked about: an
\* AnalysisResult whose ticker field is that ticker.
Decisions == {"BUY", "HOLD"}
AnalysisResult(t, d) == [ticker |-> t, decision |-> d]

\* onChange={(e) => setTickerInput(e.target.value.toUpperCase())}
SetTickerInput(text) ==
    /\ tickerInput' = toUpperCase(text)
    /\ UNCHANGED << outsideHome, activeTicker, analyzing, result, homeError,
                    mainTab, analyzeReqs, analyzeCalls >>

\* handleSearch: the form is submitted with a ticker in the field.
handleSearch ==
    /\ trim(tickerInput) # ""
    /\ activeTicker' = toUpperCase(tickerInput)
    /\ result' = Null
    /\ homeError' = ""
    /\ UNCHANGED << outsideHome, tickerInput, analyzing, mainTab, analyzeReqs,
                    analyzeCalls >>

\* The tab buttons, rendered when there is an active ticker.
SetMainTab(tab) ==
    /\ activeTicker # NoTicker
    /\ tab # mainTab
    /\ mainTab' = tab
    /\ UNCHANGED << outsideHome, tickerInput, activeTicker, analyzing, result,
                    homeError, analyzeReqs, analyzeCalls >>

\* handleAnalyze up to its await.  The button is rendered in the chart tab
\* while there is no result, and is disabled while analyzing.
handleAnalyze ==
    /\ activeTicker # NoTicker
    /\ mainTab = "chart"
    /\ result = Null
    /\ ~analyzing
    /\ analyzeCalls < MaxAnalyses
    /\ analyzeCalls' = analyzeCalls + 1
    /\ analyzing' = TRUE
    /\ homeError' = ""
    /\ result' = Null
    /\ analyzeReqs' = analyzeReqs \cup
           {[id |-> analyzeCalls + 1, ticker |-> activeTicker]}
    /\ UNCHANGED << outsideHome, tickerInput, activeTicker, mainTab >>

\* handleAnalyze resumes with an ok response: setResult(data), then
\* setAnalyzing(false).
AnalyzeSuccess(r, d) ==
    /\ r \in analyzeReqs
    /\ analyzeReqs' = analyzeReqs \ {r}
    /\ result' = AnalysisResult(r.ticker, d)
    /\ analyzing' = FALSE
    /\ UNCHANGED << outsideHome, tickerInput, activeTicker, homeError, mainTab,
                    analyzeCalls >>

\* The response is not ok, or the fetch throws: setError, setAnalyzing(false).
AnalyzeFailure(r, notOk) ==
    /\ r \in analyzeReqs
    /\ analyzeReqs' = analyzeReqs \ {r}
    /\ homeError' = IF notOk THEN "Failed to analyze stock" ELSE "Failed to fetch"
    /\ analyzing' = FALSE
    /\ UNCHANGED << outsideHome, tickerInput, activeTicker, result, mainTab,
                    analyzeCalls >>

HomeInit == NoChart /\ NewsIdle /\ LwIdle /\ HomeInitial /\ TabIdle /\ PanelIdle

HomeNext ==
    \/ \E text \in TypedTexts : SetTickerInput(text)
    \/ handleSearch
    \/ \E tab \in {"chart", "fundamentals"} : SetMainTab(tab)
    \/ handleAnalyze
    \/ \E r \in analyzeReqs, d \in Decisions : AnalyzeSuccess(r, d)
    \/ \E r \in analyzeReqs, notOk \in BOOLEAN : AnalyzeFailure(r, notOk)

HomeSpec == HomeInit /\ [][HomeNext]_vars

\* ============================= the portfolio tab (PortfolioTab.tsx)
\* A request in flight.  cat is the category id in its URL or body, arg its
\* ticker, period or name, and sel the id of the selectedCategory its handler
\* closed over (0 for null).  The server handles a request at the moment its
\* response is delivered.
TabReq(kind, cat, arg, sel) ==
    [kind |-> kind, id |-> tabCalls + 1, cat |-> cat, arg |-> arg, sel |-> sel]

TabTexts == {"", "amd"}
CatNames == {"", "Growth"}
Timeframes == {"6mo", "1y"}

RECURSIVE Without(_, _)
\* The list without the ticker.
Without(list, t) ==
    IF list = <<>> THEN <<>>
    ELSE IF Head(list) = t THEN Without(Tail(list), t)
    ELSE << Head(list) >> \o Without(Tail(list), t)

\* PortfolioTab after its first render: the mount effect has called
\* fetchCategories; the other two effects found no selected category.
TabInit ==
    /\ NoChart /\ NewsIdle /\ LwIdle /\ HomeInitial /\ PanelIdle
    /\ TabFields
    /\ tabReqs = {[kind |-> "categories", id |-> 1, cat |-> 0, arg |-> "", sel |-> 0]}
    /\ tabCalls = 1

\* fetchCategories resumes: setCategories(data), new objects.
CategoriesResponse(r) ==
    /\ r \in tabReqs
    /\ r.kind = "categories"
    /\ tabReqs' = tabReqs \ {r}
    /\ categories' = {Category(i, r.id) : i \in dbCategories}
    /\ UNCHANGED << outsideTab, selectedCategory, stocks, analysisData,
                    timeframe, tabLoading, newCatName, newTicker, dbCategories,
                    dbStocks, tabCalls >>

\* A request whose fetch rejects, in a handler that catches it or leaves the
\* rejection unhandled: no state is set.  runAnalysis is not one of them.
RequestThrows(r) ==
    /\ r \in tabReqs
    /\ r.kind # "analysis"
    /\ tabReqs' = tabReqs \ {r}
    /\ UNCHANGED << outsideTab, categories, selectedCategory, stocks,
                    analysisData, timeframe, tabLoading, newCatName, newTicker,
                    dbCategories, dbStocks, tabCalls >>

\* onClick={() => setSelectedCategory(cat)} with another object than the
\* selected one; the [selectedCategory] effect calls fetchStocks(cat.id) and
\* setAnalysisData(null).
SelectCategory(cat) ==
    /\ cat \in categories
    /\ cat # selectedCategory
    /\ tabCalls < MaxTabCalls
    /\ selectedCategory' = cat
    /\ analysisData' = Null
    /\ tabReqs' = tabReqs \cup {TabReq("stocks", cat.id, "", cat.id)}
    /\ tabCalls' = tabCalls + 1
    /\ UNCHANGED << outsideTab, categories, stocks, timeframe, tabLoading,
                    newCatName, newTicker, dbCategories, dbStocks >>

\* fetchStocks resumes: setStocks(data.stocks || []), a new array, so the
\* [stocks, timeframe] effect runs, and calls runAnalysis (setLoading(true),
\* POST /analysis for the selected category and the timeframe) when a
\* category is selected and the list is not empty.
StocksResponse(r) ==
    LET list == IF r.cat \in dbCategories THEN dbStocks[r.cat] ELSE <<>>
        analyses == selectedCategory # NoCategory /\ Len(list) > 0
    IN  /\ r \in tabReqs
        /\ r.kind = "stocks"
        /\ stocks' = list
        /\ tabLoading' = IF analyses THEN TRUE ELSE tabLoading
        /\ tabReqs' = (tabReqs \ {r}) \cup
               IF analyses
               THEN {TabReq("analysis", selectedCategory.id, timeframe,
                            selectedCategory.id)}
               ELSE {}
        /\ tabCalls' = IF analyses THEN tabCalls + 1 ELSE tabCalls
        /\ UNCHANGED << outsideTab, categories, selectedCategory, analysisData,
                        timeframe, newCatName, newTicker, dbCategories,
                        dbStocks >>

\* runAnalysis resumes: setAnalysisData(result.data) when result.success,
\* nothing when not or when the fetch throws; setLoading(false) in finally.
AnalysisResponse(r, success) ==
    /\ r \in tabReqs
    /\ r.kind = "analysis"
    /\ tabReqs' = tabReqs \ {r}
    /\ analysisData' =
           IF success
           THEN [category |-> r.cat, period |-> r.arg,
                 stocks |-> IF r.cat \in dbCategories THEN dbStocks[r.cat] ELSE <<>>]
           ELSE analysisData
    /\ tabLoading' = FALSE
    /\ UNCHANGED << outsideTab, categories, selectedCategory, stocks,
                    timeframe, newCatName, newTicker, dbCategories, dbStocks,
                    tabCalls >>

\* onClick={() => setTimeframe(tf)}; the [stocks, timeframe] effect runs.
SetTimeframe(tf) ==
    LET analyses == Len(stocks) > 0
    IN  /\ selectedCategory # NoCategory
        /\ tf # timeframe
        /\ tabCalls < MaxTabCalls
        /\ timeframe' = tf
        /\ tabLoading' = IF analyses THEN TRUE ELSE tabLoading
        /\ tabReqs' = tabReqs \cup
               IF analyses
               THEN {TabReq("analysis", selectedCategory.id, tf, selectedCategory.id)}
               ELSE {}
        /\ tabCalls' = IF analyses THEN tabCalls + 1 ELSE tabCalls
        /\ UNCHANGED << outsideTab, categories, selectedCategory, stocks,
                        analysisData, newCatName, newTicker, dbCategories,
                        dbStocks >>

\* removeStock(ticker) up to its await.
removeStock(t) ==
    /\ selectedCategory # NoCategory
    /\ \E k \in 1..Len(stocks) : stocks[k] = t
    /\ tabCalls < MaxTabCalls
    /\ tabReqs' = tabReqs \cup
           {TabReq("remove", selectedCategory.id, t, selectedCategory.id)}
    /\ tabCalls' = tabCalls + 1
    /\ UNCHANGED << outsideTab, categories, selectedCategory, stocks,
                    analysisData, timeframe, tabLoading, newCatName, newTicker,
                    dbCategories, dbStocks >>

\* removeStock resumes after the DELETE: fetchStocks(selectedCategory.id).
RemoveResponse(r) ==
    /\ r \in tabReqs
    /\ r.kind = "remove"
    /\ dbStocks' = [dbStocks EXCEPT ![r.cat] = Without(@, r.arg)]
    /\ tabReqs' = (tabReqs \ {r}) \cup {TabReq("stocks", r.cat, "", r.sel)}
    /\ tabCalls' = tabCalls + 1
    /\ UNCHANGED << outsideTab, categories, selectedCategory, stocks,
                    analysisData, timeframe, tabLoading, newCatName, newTicker,
                    dbCategories >>

\* onChange={e => setNewTicker(e.target.value.toUpperCase())}
SetNewTicker(text) ==
    /\ selectedCategory # NoCategory
    /\ newTicker' = toUpperCase(text)
    /\ UNCHANGED << outsideTab, categories, selectedCategory, stocks,
                    analysisData, timeframe, tabLoading, newCatName,
                    dbCategories, dbStocks, tabReqs, tabCalls >>

\* addStock up to its await.
addStock ==
    /\ newTicker # ""
    /\ selectedCategory # NoCategory
    /\ tabCalls < MaxTabCalls
    /\ tabReqs' = tabReqs \cup
           {TabReq("add", selectedCategory.id, newTicker, selectedCategory.id)}
    /\ tabCalls' = tabCalls + 1
    /\ UNCHANGED << outsideTab, categories, selectedCategory, stocks,
                    analysisData, timeframe, tabLoading, newCatName, newTicker,
                    dbCategories, dbStocks >>

\* addStock resumes: when res.ok, setNewTicker("") and fetchStocks; otherwise
\* an alert.  The server refuses a ticker the category already holds.
AddResponse(r) ==
    LET ok == /\ r.cat \in dbCategories
              /\ \A k \in 1..Len(dbStocks[r.cat]) : dbStocks[r.cat][k] # r.arg
    IN  /\ r \in tabReqs
        /\ r.kind = "add"
        /\ dbStocks' = IF ok THEN [dbStocks EXCEPT ![r.cat] = Append(@, r.arg)]
                       ELSE dbStocks
        /\ newTicker' = IF ok THEN "" ELSE newTicker
        /\ tabReqs' = (tabReqs \ {r}) \cup
               IF ok THEN {TabReq("stocks", r.cat, "", r.sel)} ELSE {}
        /\ tabCalls' = IF ok THEN tabCalls + 1 ELSE tabCalls
        /\ UNCHANGED << outsideTab, categories, selectedCategory, stocks,
                        analysisData, timeframe, tabLoading, newCatName,
                        dbCategories >>

\* onChange={e => setNewCatName(e.target.value)}
SetNewCatName(text) ==
    /\ newCatName' = text
    /\ UNCHANGED << outsideTab, categories, selectedCategory, stocks,
                    analysisData, timeframe, tabLoading, newTicker,
                    dbCategories, dbStocks, tabReqs, tabCalls >>

\* createCategory up to its await.
createCategory ==
    /\ newCatName # ""
    /\ tabCalls < MaxTabCalls
    /\ tabReqs' = tabReqs \cup {TabReq("create", 0, newCatName, selectedCategory.id)}
    /\ tabCalls' = tabCalls + 1
    /\ UNCHANGED << outsideTab, categories, selectedCategory, stocks,
                    analysisData, timeframe, tabLoading, newCatName, newTicker,
                    dbCategories, dbStocks >>

\* createCategory resumes: when res.ok, setNewCatName("") and
\* fetchCategories(); otherwise an alert.  The server holds the new category
\* under the id 3 and refuses a second one.
CreateResponse(r) ==
    LET ok == 3 \notin dbCategories
    IN  /\ r \in tabReqs
        /\ r.kind = "create"
        /\ dbCategories' = IF ok THEN dbCategories \cup {3} ELSE dbCategories
        /\ dbStocks' = IF ok THEN [dbStocks EXCEPT ![3] = <<>>] ELSE dbStocks
        /\ newCatName' = IF ok THEN "" ELSE newCatName
        /\ tabReqs' = (tabReqs \ {r}) \cup
               IF ok THEN {TabReq("categories", 0, "", r.sel)} ELSE {}
        /\ tabCalls' = IF ok THEN tabCalls + 1 ELSE tabCalls
        /\ UNCHANGED << outsideTab, categories, selectedCategory, stocks,
                        analysisData, timeframe, tabLoading, newTicker >>

\* deleteCategory(id) after the user confirmed, up to its await.
deleteCategory(i) ==
    /\ \E cat \in categories : cat.id = i
    /\ tabCalls < MaxTabCalls
    /\ tabReqs' = tabReqs \cup {TabReq("delete", i, "", selectedCategory.id)}
    /\ tabCalls' = tabCalls + 1
    /\ UNCHANGED << outsideTab, categories, selectedCategory, stocks,
                    analysisData, timeframe, tabLoading, newCatName, newTicker,
                    dbCategories, dbStocks >>

\* deleteCategory resumes: fetchCategories(), and when the category the
\* handler saw selected is the deleted one, setSelectedCategory(null),
\* setStocks([]), setAnalysisData(null); neither effect then finds a selected
\* category.
DeleteResponse(r) ==
    LET wasSelected == r.sel = r.cat
    IN  /\ r \in tabReqs
        /\ r.kind = "delete"
        /\ dbCategories' = dbCategories \ {r.cat}
        /\ tabReqs' = (tabReqs \ {r}) \cup {TabReq("categories", 0, "", r.sel)}
        /\ tabCalls' = tabCalls + 1
        /\ selectedCategory' = IF wasSelected THEN NoCategory ELSE selectedCategory
        /\ stocks' = IF wasSelected THEN <<>> ELSE stocks
        /\ analysisData' = IF wasSelected THEN Null ELSE analysisData
        /\ UNCHANGED << outsideTab, categories, timeframe, tabLoading,
                        newCatName, newTicker, dbStocks >>

TabNext ==
    \/ \E r \in tabReqs : CategoriesResponse(r)
    \/ \E r \in tabReqs : RequestThrows(r)
    \/ \E cat \in categories : SelectCategory(cat)
    \/ \E r \in tabReqs : StocksResponse(r)
    \/ \E r \in tabReqs, ok \in BOOLEAN : AnalysisResponse(r, ok)
    \/ \E tf \in Timeframes : SetTimeframe(tf)
    \/ \E t \in {"NVDA", "AMD"} : removeStock(t)
    \/ \E r \in tabReqs : RemoveResponse(r)
    \/ \E text \in TabTexts : SetNewTicker(text)
    \/ addStock
    \/ \E r \in tabReqs : AddResponse(r)
    \/ \E text \in CatNames : SetNewCatName(text)
    \/ createCategory
    \/ \E r \in tabReqs : CreateResponse(r)
    \/ \E i \in CategoryIds : deleteCategory(i)
    \/ \E r \in tabReqs : DeleteResponse(r)

TabSpec == TabInit /\ [][TabNext]_vars

\* ======================== the portfolio news panel (PortfolioNews, part_001)
\* News items as the server can send them: the item a exists in two versions
\* with different dates.  pubDate is a day number (localeCompare on
\* YYYY-MM-DD strings orders them as the days).
PanelItem(id, d) == [id |-> id, pubDate |-> d]
PanelItems == { PanelItem("a", 2), PanelItem("a", 1), PanelItem("b", 1),
                PanelItem("c", 2) }

\* The "news" field of a response: up to MaxResponseLen items whose ids are
\* pairwise distinct.
PanelResponses ==
    { resp \in UNION { [1..n -> PanelItems] : n \in 0..MaxResponseLen } :
        \A j, k \in 1..Len(resp) : j # k => resp[j].id # resp[k].id }

RECURSIVE FilterNew(_, _)
\* newItems.filter(n => !existingIds.has(n.id)), existingIds being the ids of prev
FilterNew(newItems, prev) ==
    IF newItems = <<>> THEN <<>>
    ELSE IF \E k \in 1..Len(prev) : prev[k].id = Head(newItems).id
         THEN FilterNew(Tail(newItems), prev)
         ELSE << Head(newItems) >> \o FilterNew(Tail(newItems), prev)

\* list.sort((a, b) => b.pubDate.localeCompare(a.pubDate)): stable, newest first
sortByPubDateDesc(list) == SortFrom(<<>>, list)

\* A merge that does not filter the new items.
mergeNewsAppendAll(prev, newItems) == sortByPubDateDesc(prev \o newItems)

\* The updater that mergeNews passes to setNews.
mergeNews(prev, newItems) ==
    LET unique == FilterNew(newItems, prev)
    IN  IF Len(unique) = 0 THEN prev
        ELSE sortByPubDateDesc(prev \o unique)

PanelReq(kind, k) == [kind |-> kind, id |-> panelCalls + k]

\* PortfolioNews after its first render: the [categoryId] effect has called
\* fetchLatestNews; no date is selected.
PanelInit ==
    /\ NoChart /\ NewsIdle /\ LwIdle /\ HomeInitial /\ TabIdle
    /\ categoryId = 1
    /\ panelNews = <<>>
    /\ panelLoading = TRUE
    /\ panelDate = NoDate
    /\ panelReqs = {[kind |-> "latest", id |-> 1]}
    /\ panelCalls = 1

\* onChange / Clear: setSelectedDate; the [selectedDate, categoryId] effect
\* calls fetchDateNews when a date is selected.
SetSelectedDate(d) ==
    /\ d # panelDate
    /\ panelCalls < MaxPanelCalls
    /\ panelDate' = d
    /\ panelLoading' = IF d # NoDate THEN TRUE ELSE panelLoading
    /\ panelReqs' = panelReqs \cup IF d # NoDate THEN {PanelReq("date", 1)} ELSE {}
    /\ panelCalls' = IF d # NoDate THEN panelCalls + 1 ELSE panelCalls
    /\ UNCHANGED << outsidePanel, categoryId, panelNews >>

\* The parent passes another categoryId: the first effect calls
\* fetchLatestNews, the second fetchDateNews when a date is selected.
ChangeCategoryId(c) ==
    LET n == IF panelDate # NoDate THEN 2 ELSE 1
    IN  /\ c # categoryId
        /\ panelCalls + n <= MaxPanelCalls
        /\ categoryId' = c
        /\ panelLoading' = TRUE
        /\ panelReqs' = panelReqs \cup {PanelReq("latest", 1)}
               \cup IF panelDate # NoDate THEN {PanelReq("date", 2)} ELSE {}
        /\ panelCalls' = panelCalls + n
        /\ UNCHANGED << outsidePanel, panelNews, panelDate >>

\* fetchLatestNews resumes with data.news: setNews(data.news), setLoading(false).
LatestResponse(r, resp) ==
    /\ r \in panelReqs
    /\ r.kind = "latest"
    /\ panelReqs' = panelReqs \ {r}
    /\ panelNews' = resp
    /\ panelLoading' = FALSE
    /\ UNCHANGED << outsidePanel, categoryId, panelDate, panelCalls >>

\* fetchDateNews resumes with data.news: mergeNews(data.news), setLoading(false).
DateResponse(r, resp) ==
    /\ r \in panelReqs
    /\ r.kind = "date"
    /\ panelReqs' = panelReqs \ {r}
    /\ panelNews' = mergeNews(panelNews, resp)
    /\ panelLoading' = FALSE
    /\ UNCHANGED << outsidePanel, categoryId, panelDate, panelCalls >>

\* Either call resumes without data.news, or its fetch throws: only
\* setLoading(false).
PanelRequestFails(r) ==
    /\ r \in panelReqs
    /\ panelReqs' = panelReqs \ {r}
    /\ panelLoading' = FALSE
    /\ UNCHANGED << outsidePanel, categoryId, panelNews, panelDate, panelCalls >>

PanelNext ==
    \/ \E d \in 0..2 : SetSelectedDate(d)
    \/ \E c \in 1..2 : ChangeCategoryId(c)
    \/ \E r \in panelReqs, resp \in PanelResponses : LatestResponse(r, resp)
    \/ \E r \in panelReqs, resp \in PanelResponses : DateResponse(r, resp)
    \/ \E r \in panelReqs : PanelRequestFails(r)

PanelSpec == PanelInit /\ [][PanelNext]_vars




\* ===================================================================== claims
\* A step in which a date is selected (handleDateClick is called).
Selecting == selGen' = selGen + 1

\* The bars request of the latest fetchData call / the news request of the
\* latest date selection.
LatestBarReq(r) == r.id = nextBarId - 1
LatestNewsReq(r) == r.sel = selGen

\* C1: last selection wins -- after a date d1 and then another date d2 were
\* selected, the completion of the fallback request for d1 does not change
\* the displayed news (selectedNews).
C1_LastSelectionWins ==
    [][\A r \in newsReqs :
          (r \notin newsReqs' /\ ~LatestNewsReq(r) /\ r.date # selectedDate)
              => selectedNews' = selectedNews]_vars

\* C2: stale bar responses are ignored -- the completion (success or failure)
\* of a bars fetch that is not the latest one started changes none of data,
\* news, error and loading.
C2_StaleBarsIgnored ==
    [][\A r \in barReqs :
          (r \notin barReqs' /\ ~LatestBarReq(r))
              => UNCHANGED << data, news, error, loading >>]_vars

\* C3: selecting a date for which the News Index (news) holds at least one
\* item issues no request, sets selectedNews to exactly the items of that
\* date and leaves loadingNews false.
C3_IndexHitNoRequest ==
    [][(Selecting /\ Len(Filter(news, selectedDate')) > 0)
          => /\ newsReqs' = newsReqs
             /\ selectedNews' = Filter(news, selectedDate')
             /\ loadingNews' = FALSE]_vars

\* C4: a selection of a date with no item in the News Index (news) issues
\* exactly one fallback request, keyed by the current ticker and that date;
\* no selection issues more than one request.
C4_IndexMissOneRequest ==
    [][Selecting
          => /\ Cardinality(newsReqs' \ newsReqs) <= 1
             /\ newsReqs \subseteq newsReqs'
             /\ Len(Filter(news, selectedDate')) = 0
                   => \E r \in newsReqs' \ newsReqs :
                         r.ticker = ticker /\ r.date = selectedDate']_vars

\* C5: while the fallback request of the latest selection is outstanding, the
\* news panel is in the loading state.
C5_LoadingWhileOutstanding ==
    (\E r \in newsReqs : LatestNewsReq(r)) => loadingNews

\* C6: when a fallback request fails, the news panel ends in the "no news
\* found" state (selectedNews empty, loadingNews false, selectedDate kept) and
\* data, news, error and loading are unchanged.
C6_NewsFailureIsNoNews ==
    [][(\E r \in newsReqs : NewsFailure(r))
          => /\ selectedNews' = <<>>
             /\ loadingNews' = FALSE
             /\ selectedDate' = selectedDate
             /\ UNCHANGED << data, news, error, loading >>]_vars

\* C7: every replacement of the bar series by a successful load leaves the
\* Interaction State empty: hoveredData null, selectedDate null, crosshair
\* hidden.
C7_ReplacementResetsInteraction ==
    [][(\E r \in barReqs, s \in ServerSeries, l \in ServerNews : FetchSuccess(r, s, l))
          => /\ hoveredData' = Null
             /\ selectedDate' = NoDate
             /\ ~surface'.crossVisible]_vars

\* C8: a change of the viewport width while a series is drawn triggers one
\* full redraw with the scales of the new width and leaves data unchanged.
C8_ResizeRedraws ==
    [][(width' # width /\ surface.drawn)
          => /\ drew'
             /\ surface'.drawn
             /\ surface'.width = width'
             /\ data' = data]_vars

\* C9: the render pipeline runs only in a task that replaces the bar series
\* or changes the viewport width.
C9_DrawOnlyOnSeriesOrWidth ==
    [][drew'
          => \/ width' # width
             \/ \E r \in barReqs, s \in ServerSeries, l \in ServerNews :
                    FetchSuccess(r, s, l)]_vars

\* Two hit areas share a horizontal extent of positive length.
Overlap(a, b) ==
    /\ a.w > 0
    /\ b.w > 0
    /\ a.x < b.x + b.w
    /\ b.x < a.x + a.w

DistinctKeys(series) ==
    \A i, j \in 1..Len(series) : i # j => series[i].time # series[j].time

\* C10: a draw of n >= 1 bars with pairwise distinct time keys creates
\* exactly n hit areas, the i-th for the i-th bar, and no two of them overlap
\* horizontally.
C10_HitAreasPerBarDisjoint ==
    (surface.drawn /\ DistinctKeys(surface.series))
        => /\ Len(surface.hits) = Len(surface.series)
           /\ \A i \in 1..Len(surface.hits) : surface.hits[i].bar = surface.series[i]
           /\ \A i, j \in 1..Len(surface.hits) :
                 i # j => ~Overlap(surface.hits[i], surface.hits[j])

C10_Witness ==
    /\ surface.drawn
    /\ DistinctKeys(surface.series)
    /\ Len(surface.series) = MaxBars
    /\ surface.width > MarginLeft + MarginRight
    /\ \A i \in 1..Len(surface.hits) : surface.hits[i].w > 0


\* The time keys of the series are strictly ascending (so also distinct).
StrictlyAscending(series) ==
    \A i \in 1..(Len(series) - 1) : series[i].time < series[i + 1].time

\* The hit areas that contain the horizontal pixel position x.
HitAreasAt(surf, x) ==
    { i \in 1..Len(surf.hits) :
        /\ surf.hits[i].x <= x * surf.den
        /\ x * surf.den < surf.hits[i].x + surf.hits[i].w }

\* C11: the hit areas partition the plot extent [margin.left, width -
\* margin.right]: every horizontal position of the extent lies in exactly one
\* hit area, for every series of at least one bar (here: with ascending keys).
C11_HitAreasPartitionPlot ==
    (/\ surface.drawn
     /\ StrictlyAscending(surface.series)
     /\ RangeLen(surface.width) > 0) =>
        \A x \in RangeLo(surface.width)..RangeHi(surface.width) :
            Cardinality(HitAreasAt(surface, x)) = 1

\* C12: for a series of exactly one bar there is exactly one hit area, and
\* its horizontal extent is the whole plot width: it starts at margin.left and
\* is width - margin.left - margin.right wide.
C12_SingleBarSpansPlot ==
    (surface.drawn /\ Len(surface.series) = 1 /\ RangeLen(surface.width) > 0) =>
        /\ Len(surface.hits) = 1
        /\ surface.hits[1].x = RangeLo(surface.width) * surface.den
        /\ surface.hits[1].w = RangeLen(surface.width) * surface.den


\* C13: a pointer-enter on hit area i sets hoveredData to bar i of the drawn
\* series, puts the crosshair at the horizontal centre of bar i's band (which
\* is also the centre of hit area i) and makes the crosshair visible.
C13_EnterHoversBar ==
    [][\A i \in 1..MaxBars :
          HitAreaMouseEnter(i) =>
              /\ hoveredData' = surface.series[i]
              /\ surface'.crossVisible
              /\ 2 * surface'.crossX =
                     2 * xScale(surface.series, surface.width, surface.series[i].time)
                     + candleWidth(surface.series, surface.width)
              /\ 2 * surface'.crossX = 2 * surface.hits[i].x + surface.hits[i].w]_vars

\* A pointer-enter has put the pointer on the second bar of a drawn series:
\* the crosshair is visible and the bar is hovered.
C13_Witness ==
    /\ surface.drawn
    /\ pointer = 2
    /\ surface.crossVisible
    /\ hoveredData = surface.series[2]
    /\ surface.crossX > surface.hits[2].x



\* C14: whenever the pointer is at a position of the drawing surface that no
\* hit area covers (a margin, the space between two hit areas), hoveredData is
\* null.
C14_OffAreasNoHover ==
    pointer = 0 => hoveredData = Null

\* C15: when the pointer moves from hit area i into an adjacent hit area j,
\* hoveredData goes from bar i to bar j with no state in between where it is
\* null: neither the step onto the space between the two areas nor the step
\* into area j leaves hoveredData null, and the step into j sets it to bar j.
C15_AdjacentMoveNoNull ==
    [][(pointer >= 0 /\ pointer' >= 0 /\ hoveredData # Null) =>
          /\ hoveredData' # Null
          /\ (pointer' >= 1 /\ pointer' # pointer) =>
                 hoveredData' = surface.series[pointer']]_vars

\* The pointer is on hit area 1 with bar 1 hovered and can move into the
\* adjacent hit area 2.
C15_Witness ==
    /\ surface.drawn
    /\ pointer = 1
    /\ hoveredData = surface.series[1]
    /\ StrictlyAscending(surface.series)
    /\ ENABLED HitAreaMouseEnter(2)


\* C16: a click inside hit area i starts a date selection carrying bar i's
\* time key (selectedDate becomes that key) and leaves hoveredData equal to
\* bar i of the drawn series, whatever hoveredData was before the click.
C16_ClickSelectsAndHovers ==
    [][\A i \in 1..MaxBars :
          HitAreaClick(i) =>
              /\ Selecting
              /\ selectedDate' = surface.series[i].time
              /\ hoveredData' = surface.series[i]]_vars

\* C17: when the pointer leaves the drawing surface, hoveredData becomes
\* null, the crosshair is hidden, and selectedDate and selectedNews are
\* unchanged.
C17_LeaveClearsHover ==
    [][SvgMouseLeave =>
          /\ hoveredData' = Null
          /\ ~surface'.crossVisible
          /\ selectedDate' = selectedDate
          /\ selectedNews' = selectedNews]_vars


\* The lows and the highs of the bars of a series.
Lows(series) == { series[i].low : i \in 1..Len(series) }
Highs(series) == { series[i].high : i \in 1..Len(series) }

\* C18: the domain of the price scale is exactly [0.98 * min(low),
\* 1.02 * max(high)] over the bars of the drawn series (in hundredths: 98 times
\* the least low, 102 times the greatest high); for the two-bar series with
\* lows 99, 101 and highs 105, 106 it is [97.02, 108.12].
C18_PriceDomainPadded ==
    surface.drawn =>
        /\ \E lo \in Lows(surface.series), hi \in Highs(surface.series) :
              /\ \A l \in Lows(surface.series) : lo <= l
              /\ \A h \in Highs(surface.series) : h <= hi
              /\ surface.priceDomain = << 98 * lo, 102 * hi >>
        /\ surface.series = SeriesA => surface.priceDomain = << 9702, 10812 >>

\* The two-bar example series is drawn: its least low is at the first bar and
\* its greatest high at the second.
C18_Witness ==
    /\ surface.drawn
    /\ surface.series = SeriesA
    /\ surface.priceDomain = << 98 * SeriesA[1].low, 102 * SeriesA[2].high >>


\* C19: the moving-average overlay is drawn only over maximal runs of
\* consecutive bars with a value: no segment of the drawn path joins two bars
\* that have a bar without a value between them (values [5, null, 7] give two
\* separate single-point runs, so no segment from bar 1 to bar 3).
C19_MALineBreaksAtNull ==
    (surface.drawn /\ StrictlyAscending(surface.series)) =>
        \A k \in 1..(Len(surface.ma5Path) - 1) :
            \A j \in (surface.ma5Path[k] + 1)..(surface.ma5Path[k + 1] - 1) :
                surface.series[j].ma5 # NoValue

\* C20: a series whose time keys are not strictly ascending, or that has a
\* duplicate key, is never laid out: nothing (no layer, no hit area) is drawn
\* for it.
C20_UnorderedSeriesNotDrawn ==
    surface.drawn => StrictlyAscending(surface.series)


\* The bar invariants: high >= max(open, close), low <= min(open, close),
\* volume >= 0.
ValidBar(b) ==
    /\ b.high >= b.open /\ b.high >= b.close
    /\ b.low <= b.open /\ b.low <= b.close
    /\ b.volume >= 0
ValidSeries(series) == \A i \in 1..Len(series) : ValidBar(series[i])

\* C21: when a loaded series has a bar that violates a bar invariant (such as
\* high < low) the whole series is rejected: it does not become the displayed
\* data, nothing is drawn from it, and the component ends in the error state
\* of a failed load.
C21_MalformedSeriesRejected ==
    [][\A r \in barReqs, s \in ServerSeries, l \in ServerNews :
          (~ValidSeries(s) /\ FetchSuccess(r, s, l)) =>
              /\ data' = data
              /\ ~drew'
              /\ error' # ""
              /\ ~loading']_vars

\* C22: a load that succeeds with zero bars is not an error: error stays
\* empty, loading becomes false, and the render pipeline is not run for the
\* empty series.
C22_EmptySeriesNoError ==
    [][\A r \in barReqs, l \in ServerNews :
          FetchSuccess(r, <<>>, l) =>
              /\ error' = ""
              /\ ~loading'
              /\ ~drew']_vars

\* C23: when a bars load fails (the fetch throws or answers success = false)
\* the error view replaces the chart (error not empty, loading false, no svg),
\* data and news keep their previous values, and no draw runs.
C23_FailedLoadShowsError ==
    [][\A r \in barReqs, threw \in BOOLEAN, m \in ServerErrors :
          FetchFailure(r, threw, m) =>
              /\ error' # ""
              /\ ~loading'
              /\ ~svgMounted'
              /\ ~ChartShown(loading', error')
              /\ data' = data
              /\ news' = news
              /\ ~drew']_vars

\* A load has failed after a series and its news were loaded: the error is
\* shown and the series and news are still there.
C23_Witness ==
    /\ error # ""
    /\ ~loading
    /\ ~svgMounted
    /\ data = SeriesA
    /\ news # <<>>
    /\ barReqs = {}


\* C24: Disposed is terminal -- once the component is torn down it stays torn
\* down, and no later step (the completion of a bars fetch or of a news
\* fallback that was in flight, a pointer event, a resize) changes any state
\* of the component or runs a draw.
C24_DisposedIsTerminal ==
    [][disposed =>
          /\ disposed'
          /\ ~drew'
          /\ UNCHANGED << data, news, loading, error, hoveredData,
                          selectedDate, selectedNews, loadingNews,
                          svgMounted, surface >>]_vars

\* The component is torn down, a bars request that was in flight at the
\* teardown has completed, and a news fallback is still in flight.
C24_Witness ==
    /\ disposed
    /\ loading
    /\ \E id \in 1..(nextBarId - 1) : \A r \in barReqs : r.id # id
    /\ barReqs # {}
    /\ newsReqs # {}
    /\ loadingNews


\* C25: every draw is a full clear-and-redraw -- after any sequence of draws
\* the surface holds exactly n wicks, n candle bodies, n volume bars and n hit
\* areas for the n bars of the series drawn last (hit area i is bound to bar
\* i), and exactly one crosshair; a surface on which nothing is drawn holds
\* none of them.
C25_FullClearAndRedraw ==
    LET n == Len(surface.series)
    IN  /\ surface.wicks = n
        /\ surface.candles = n
        /\ surface.volumeBars = n
        /\ Len(surface.hits) = n
        /\ \A i \in 1..n : surface.hits[i].bar = surface.series[i]
        /\ surface.crosshairs = (IF surface.drawn THEN 1 ELSE 0)
        /\ (drew /\ surface.drawn) => surface.series = data

\* A one-bar series was just drawn on an svg that already held the pointer
\* and on which the second bar of the two-bar series had been hovered.
C25_Witness ==
    /\ drew
    /\ surface.drawn
    /\ surface.series = SeriesB
    /\ pointer = 0
    /\ hoveredData = SeriesA[2]


\* The 1-based positions of the bars that the claim says are labelled: the
\* 0-based indices i with i mod k = 0, where k = ceil(n / 8) is the least
\* integer with 8 * k >= n.
CeilEighth(n) == CHOOSE c \in 1..n : 8 * c >= n /\ 8 * (c - 1) < n
LabelledBars(n) == { i \in 1..n : (i - 1) % CeilEighth(n) = 0 }

\* C26: for a series of n >= 1 bars (with distinct keys) the labels of the
\* time axis are exactly the keys of the bars at the indices i with
\* i mod ceil(n/8) = 0, in order; so the first bar is labelled and there are
\* at most 8 labels.
C26_TickLabelsSampled ==
    (surface.drawn /\ DistinctKeys(surface.series)) =>
        LET n == Len(surface.series)
            ticks == surface.ticks
        IN  /\ { ticks[j] : j \in 1..Len(ticks) } =
                   { surface.series[i].time : i \in LabelledBars(n) }
            /\ Len(ticks) = Cardinality(LabelledBars(n))
            /\ \A j \in 1..Len(ticks) :
                   ticks[j] = surface.series[(j - 1) * CeilEighth(n) + 1].time
            /\ ticks[1] = surface.series[1].time
            /\ Len(ticks) <= 8

\* A series of nine days is drawn: every second day is labelled.
C26_Witness ==
    /\ surface.drawn
    /\ Len(surface.series) = 9
    /\ surface.ticks = << 1, 3, 5, 7, 9 >>


\* fetch_all_news has returned (all_news is its result).
Returned == pc \in {"returned", "returned_unsaved"}
\* The step in which fetch_all_news returns.
Returning == pc = "loop" /\ pc' # "loop"

ItemsWithId(list, id) == { k \in 1..Len(list) : list[k].id = id }
NoRepeat(list) ==
    \A j, k \in 1..Len(list) : j # k => list[j] # list[k]

\* C27: fetch_all_news deduplicates by id and merges tickers -- the returned
\* list has at most one item per id; the item of an id lists every ticker
\* whose fetch returned that id and every ticker the cache recorded for it;
\* and no item lists a ticker twice.
C27_DedupByIdMergesTickers ==
    [][Returning =>
          /\ \A k \in 1..Len(all_news') :
                /\ Cardinality(ItemsWithId(all_news', all_news'[k].id)) = 1
                /\ NoRepeat(all_news'[k].tickers)
          /\ \A p \in fetched :
                \E k \in 1..Len(all_news') :
                    /\ all_news'[k].id = p[2]
                    /\ Contains(all_news'[k].tickers, p[1])
          /\ \A c \in 1..Len(cacheFile) :
                \E k \in 1..Len(all_news') :
                    /\ all_news'[k].id = cacheFile[c].id
                    /\ \A j \in 1..Len(cacheFile[c].tickers) :
                          Contains(all_news'[k].tickers, cacheFile[c].tickers[j])]_vars

\* A second call has returned an item that the cache recorded for one ticker
\* and that this call fetched for the other: it lists both, the cached one
\* first.
C27_Witness ==
    /\ Returned
    /\ calls = 2
    /\ << "MSFT", "a" >> \in fetched
    /\ << "AAPL", "a" >> \notin fetched
    /\ \E k \in 1..Len(all_news) :
          all_news[k].id = "a" /\ all_news[k].tickers = << "AAPL", "MSFT" >>

\* C28: the list returned by fetch_all_news never has two items with the same
\* URL or with the same title.
C28_DedupByUrlOrTitle ==
    Returned =>
        \A j, k \in 1..Len(all_news) :
            j # k => /\ all_news[j].title # all_news[k].title
                     /\ all_news[j].url # all_news[k].url

\* C29: the list returned by fetch_all_news is sorted by pubDate, newest
\* first, and the list the call wrote to the cache is the list it returned.
C29_SortedNewestFirstAndCached ==
    /\ Returned =>
          \A k \in 1..(Len(all_news) - 1) :
              all_news[k].pubDate >= all_news[k + 1].pubDate
    /\ pc = "returned" => cacheFile = all_news

\* A call has returned three items that it collected oldest first, and has
\* written them to the cache.
C29_Witness ==
    /\ pc = "returned"
    /\ Len(all_news) = 3
    /\ Len(news_map) = 3
    /\ news_map[1].pubDate < news_map[2].pubDate
    /\ all_news[1].pubDate > all_news[3].pubDate
    /\ cacheFile = all_news


\* C30: loading always resolves -- when every bars fetch that was started
\* completes and the ticker and period stop changing, the component (unless
\* it is torn down) reaches a state with loading = false and stays there.
C30_LoadingResolves == <>[](disposed \/ ~loading)

\* The ticker was changed, every bars fetch has completed, and the mounted
\* component is not loading.
C30_Witness ==
    /\ ~disposed
    /\ ~loading
    /\ barReqs = {}
    /\ nextBarId > 2

\* Interaction State: what the pointer handlers and the news resolver own.
InteractionState == << hoveredData, selectedDate, selectedNews, loadingNews >>

\* A step of a pointer handler (mouseenter, mouseleave, click) or of the news
\* resolver (the continuation of handleDateClick after its request).
PointerOrResolverStep ==
    \/ \E i \in 1..MaxBars : HitAreaMouseEnter(i)
    \/ SvgMouseLeave
    \/ \E i \in 1..MaxBars : HitAreaClick(i)
    \/ \E r \in newsReqs, l \in FallbackNews : NewsSuccess(r, l)
    \/ \E r \in newsReqs : NewsFailure(r)

\* C31: the render pipeline never mutates Interaction State -- a step that
\* runs the draw leaves hoveredData, selectedDate, selectedNews and
\* loadingNews unchanged, and these change only in steps of the pointer
\* handlers and of the news resolver.
C31_DrawLeavesInteraction ==
    [][ /\ drew' => UNCHANGED InteractionState
        /\ InteractionState' # InteractionState => PointerOrResolverStep ]_vars

\* A draw has just run while a bar is hovered and a date with index news is
\* selected: the hover and the selection are those from before the draw.
C31_Witness ==
    /\ drew
    /\ hoveredData # Null
    /\ selectedDate # NoDate
    /\ selectedNews # <<>>

\* C32: the News Index is read-only between bar loads -- a date selection and
\* the completion of a fallback request, successful or failed, leave the news
\* list unchanged; the news list changes only in a step in which a bars load
\* succeeds.
C32_NewsIndexReadOnly ==
    [][ /\ (Selecting \/ newsReqs' # newsReqs) => news' = news
        /\ news' # news =>
              \E r \in barReqs, s \in ServerSeries, l \in ServerNews :
                  FetchSuccess(r, s, l) ]_vars

\* A fallback request has answered for a date the index has no news for, and
\* the index still holds the list of the bars load.
C32_Witness ==
    /\ news = << NewsItem("n1", 1), NewsItem("n2", 1) >>
    /\ selectedDate = 2
    /\ selectedNews = << NewsItem("f1", 2) >>
    /\ newsReqs = {}
    /\ ~loadingNews

\* C33: in the lightweight-charts component, whatever series replacements,
\* failed loads and teardown happened, at most one chart is live and at most
\* one resize listener is registered on the window, and after the teardown
\* there is no live chart and no registered listener.
C33_OneChartOneListener ==
    /\ Cardinality(charts) <= 1
    /\ Cardinality(resizeListeners) <= 1
    /\ disposed => charts = {} /\ resizeListeners = {}

\* Two charts were created, the second replacing the first, a later load
\* failed, and the component was torn down.
C33_Witness ==
    /\ disposed
    /\ chartsCreated = 2
    /\ chartRef = 2
    /\ error # ""
    /\ barReqs = {}

\* The component shows the chart view of a non-empty series.
Ready == ~disposed /\ ChartShown(loading, error) /\ Len(data) > 0

\* C34: whenever the chart is displayed (loading false, error empty) with a
\* non-empty series, the svg is drawn and its layers and hit regions are
\* those of the current data: never blank, never the bars of an earlier
\* series.
C34_ReadyImpliesDrawn ==
    Ready =>
        /\ svgMounted
        /\ surface.drawn
        /\ surface.series = data
        /\ surface.hits = HitAreas(data, surface.width)
        /\ surface.wicks = Len(data)
        /\ surface.candles = Len(data)
        /\ surface.volumeBars = Len(data)

\* The chart of a second series is displayed after the first one was.
C34_Witness ==
    /\ Ready
    /\ nextBarId > 2
    /\ barReqs = {}
    /\ data = SeriesB
    /\ surface.series = SeriesB
    /\ Len(surface.hits) = 1

\* C35: while the bars fetch of the current (ticker, period) is in flight the
\* component is in the loading state -- loading is true, and neither the
\* chart nor an error is shown.
C35_LoadingWhileFetching ==
    (~disposed /\ \E r \in barReqs : LatestBarReq(r))
        => /\ loading
           /\ ~svgMounted
           /\ ~surface.drawn

\* C36: in the D3 chart the crosshair is visible exactly when hoveredData is
\* non-null, in every state in which the chart is drawn, a redraw while a
\* bar is hovered included.
C36_CrosshairIffHovered ==
    (svgMounted /\ surface.drawn)
        => (surface.crossVisible <=> hoveredData # Null)

\* C37: a displayed analysis result always belongs to the active ticker --
\* after handleSearch set a new active ticker, the completion of a
\* handleAnalyze request started for an earlier ticker does not make that
\* ticker's result visible.
C37_ResultOfActiveTicker ==
    result # Null => result.ticker = activeTicker

\* C38: in the portfolio tab, whenever the stock list of the selected
\* category is empty and no request is in flight, no analysis chart is
\* displayed (analysisData is null) -- after the last stock of a category was
\* removed the analysis computed before is no longer shown.
C38_EmptyCategoryNoAnalysis ==
    (selectedCategory # NoCategory /\ stocks = <<>> /\ tabReqs = {})
        => analysisData = Null

\* C39: in the portfolio news panel, with responses whose ids are pairwise
\* distinct, the news list never holds two items with the same id whatever
\* the interleaving of fetchLatestNews and fetchDateNews completions, and
\* merging a response into the list a second time leaves the list unchanged.
C39_MergeDuplicateFreeIdempotent ==
    /\ \A j, k \in 1..Len(panelNews) : j # k => panelNews[j].id # panelNews[k].id
    /\ \A resp \in PanelResponses :
          /\ mergeNews(mergeNews(panelNews, resp), resp) = mergeNews(panelNews, resp)
          /\ \A j, k \in 1..Len(mergeNews(panelNews, resp)) :
                j # k => mergeNews(panelNews, resp)[j].id # mergeNews(panelNews, resp)[k].id

\* A date response was merged into a list that held the item a already: the
\* list has three items, more than one response holds, and keeps its own
\* version of a.
C39_Witness ==
    /\ Len(panelNews) = 3
    /\ panelReqs = {}
    /\ \E k \in 1..3 : panelNews[k] = PanelItem("a", 1)
    /\ panelNews[1] = PanelItem("c", 2)

====
